---- MODULE Spec2Model ----
(***************************************************************************)
(* Model of the audio analysis pipeline of the Visualizer repository:      *)
(* AdvancedBeatDetector (beatDetector.ts) and the mood/energy part of      *)
(* AdvancedAudioAnalyzer (advancedAudioAnalysis.ts).                       *)
(*                                                                         *)
(* Number representation (the source computes in IEEE doubles; the model   *)
(* computes the same quantities exactly, as scaled integers):              *)
(*   energy      in fifths      (calculateEnergy returns rms/255, the      *)
(*                               model's frames have rms a multiple of 51) *)
(*   bass/mid/treble in tenths                                             *)
(*   confidence  as a fraction <<num, den>>                                *)
(*   beatPhase   in 1/60000    (phase = ((dt * tempo) mod 60000) / 60000)  *)
(*   intensity   in hundredths                                             *)
(*   pattern confidence in 1/560 (lcm of the denominators 8, 16, 28, 10)   *)
(*   time        in milliseconds                                           *)
(* The integer form of Math.round(last*0.9 + new*(1-0.9)) was compared     *)
(* with the double computation for every last in 60..200, new in 0..200.   *)
(***************************************************************************)
EXTENDS Integers, Sequences, FiniteSets, TLC

\* ---------------------------------------------------------------- bounds
MaxTicks == 46
WarmTicks == 16
MaxSilentRun == 101
MaxLongTicks == 1002
\* cache keys requested in a run and image loads in flight at once; the cache
\* hits, repeated requests and loads settled out of order in a run
MaxKeys == 54
MaxInFlight == 2
MaxDetours == 1
\* the length of the loaded buffer and the span of the audio clock (in clock
\* steps), and the source nodes created in a run
BufferDuration == 2
MaxAudioTime == 3
MaxNodes == 2
\* update() calls of the engine without a transition and triggerTransition()
\* calls in a run, and the manual requests that choose their theme and effect
MaxIdleUpdates == 12
MaxTriggers == 22
FreeTriggers == 1

\* ------------------------------------------------------ program constants
minBeatInterval == 300
historySize == 43
maxHistory == 20
beatHistoryCap == 8
tempoHistoryCap == 10
patternBufferCap == 32
coldStartSamples == 10
defaultTempo == 120
minTempo == 60
maxTempo == 200
PhaseDen == 60000
PatDen == 56 * 10

\* ---------------------------------------------------------------- helpers
Min(a, b) == IF a < b THEN a ELSE b
Max(a, b) == IF a > b THEN a ELSE b
Abs(a) == IF a < 0 THEN 0 - a ELSE a

RECURSIVE SumSeq(_)
SumSeq(s) == IF s = <<>> THEN 0 ELSE Head(s) + SumSeq(Tail(s))

RECURSIVE SumSqSeq(_)
SumSqSeq(s) == IF s = <<>> THEN 0 ELSE Head(s) * Head(s) + SumSqSeq(Tail(s))

Last(s) == s[Len(s)]

\* Array.prototype.slice(-n): the last n elements (all of them if fewer)
SliceLast(s, n) == SubSeq(s, Max(1, Len(s) - n + 1), Len(s))

\* largest r with r*r <= n, for n < 256 * 256
ISqrt(n) == CHOOSE r \in 0..255 : r * r <= n /\ n < (r + 1) * (r + 1)

\* Exact comparison a*a > b*b*v for 0 <= a < 10^6, 0 <= b < 10^6, 0 <= v <= 1000,
\* with both sides held as two limbs in base 10^6 so that no product exceeds 2^31.
Sq2(a) ==
    LET a1 == a \div 1000
        a0 == a % 1000
        low == 2 * a1 * a0 * 1000 + a0 * a0
    IN  <<a1 * a1 + low \div 1000000, low % 1000000>>
Mul2(p, v) == <<p[1] * v + (p[2] * v) \div 1000000, (p[2] * v) % 1000000>>
Gt2(p, q) == p[1] > q[1] \/ (p[1] = q[1] /\ p[2] > q[2])
SqGreater(a, b, v) == Gt2(Sq2(a), Mul2(Sq2(b), v))

\* --------------------------------------------------------------- push/cap
\* this.h.push(x); if (this.h.length > cap) this.h.shift();
\* mutant: the newest entry is dropped instead of the oldest (pop for shift)
ShiftOldest_Newest(h) == SubSeq(h, 1, Len(h) - 1)
ShiftOldest(h) == Tail(h)
PushCapped(h, x, cap) ==
    LET pushed == Append(h, x)
    IN  IF Len(pushed) > cap THEN ShiftOldest(pushed) ELSE pushed

\* ------------------------------------------------------- calculateEnergy
\* sqrt(sum(f[i]^2) / length) / 255, in fifths
calculateEnergy(freq) == ISqrt(SumSqSeq(freq) \div Len(freq)) \div 51

\* ------------------------------------------------------------ detectBeat
\* mutant: the cold-start guard asks for 3 samples only
ColdStart_Short(eh) == Len(eh) < 3
ColdStart(eh) == Len(eh) < coldStartSamples

\* energyRatio > energyThreshold + sqrt(variance) over the last 10 samples,
\* energyRatio = energy / (localAverage + 0.001).
\* With n samples of sum S and square sum Q (fifths):
\*   ratio = 200*k*n / D, D = 200*S + n;  sqrt(variance) = sqrt(n*Q - S*S) / (5*n)
\*   ratio > 1.3 + sqrt(var)  <=>  2000*k*n*n - 13*n*D > 2*D*sqrt(n*Q - S*S)
RatioDen(recent) == 200 * SumSeq(recent) + Len(recent)
IsEnergyBeat(energy, recent) ==
    LET n == Len(recent)
        S == SumSeq(recent)
        D == RatioDen(recent)
        V == n * SumSqSeq(recent) - S * S
        L == 2000 * energy * n * n - 13 * n * D
    IN  L > 0 /\ SqGreater(L, 2 * D, V)

\* mutant: a gate of 100 ms
IsTimingValid_Short(currentTime, lbt) == currentTime - lbt >= 100
IsTimingValid(currentTime, lbt) == currentTime - lbt >= minBeatInterval

\* last bass sample > bassAvg * 1.2
IsBassHit(bh) == 5 * Last(bh) * Len(bh) > 6 * SumSeq(bh)

\* mutant: no Math.min(1, ...)
BeatConfidence_NoClamp(energy, recent) ==
    <<200 * energy * Len(recent) - RatioDen(recent), 2 * RatioDen(recent)>>
\* Math.min(1, (energyRatio - 1) * 0.5) as a fraction
BeatConfidence(energy, recent) ==
    LET D == RatioDen(recent)
        num == 200 * energy * Len(recent) - D
    IN  IF num >= 2 * D THEN <<1, 1>> ELSE <<num, 2 * D>>

\* mutant: the bass confirmation is left out of the conjunction
detectBeat_NoBass(eh, bh, beats, lbt, energy, currentTime) ==
    IF ColdStart(eh)
    THEN [isBeat |-> FALSE, confidence |-> <<0, 1>>, lastBeatTime |-> lbt, beatHistory |-> beats]
    ELSE LET recent == SliceLast(eh, 10)
             isBeat == /\ IsEnergyBeat(energy, recent)
                       /\ IsTimingValid(currentTime, lbt)
         IN  IF isBeat
             THEN [isBeat |-> TRUE,
                   confidence |-> BeatConfidence(energy, recent),
                   lastBeatTime |-> currentTime,
                   beatHistory |-> PushCapped(beats, currentTime, beatHistoryCap)]
             ELSE [isBeat |-> FALSE, confidence |-> <<0, 1>>,
                   lastBeatTime |-> lbt, beatHistory |-> beats]
\* returns the result and the updated lastBeatTime / beatHistory;
\* eh is energyHistory after this tick's push, bh the bass history after its push
detectBeat(eh, bh, beats, lbt, energy, currentTime) ==
    IF ColdStart(eh)
    THEN [isBeat |-> FALSE, confidence |-> <<0, 1>>, lastBeatTime |-> lbt, beatHistory |-> beats]
    ELSE LET recent == SliceLast(eh, 10)
             isBeat == /\ IsEnergyBeat(energy, recent)
                       /\ IsTimingValid(currentTime, lbt)
                       /\ IsBassHit(bh)
         IN  IF isBeat
             THEN [isBeat |-> TRUE,
                   confidence |-> BeatConfidence(energy, recent),
                   lastBeatTime |-> currentTime,
                   beatHistory |-> PushCapped(beats, currentTime, beatHistoryCap)]
             ELSE [isBeat |-> FALSE, confidence |-> <<0, 1>>,
                   lastBeatTime |-> lbt, beatHistory |-> beats]

\* -------------------------------------------------------- calculateTempo
Intervals(beats) == [i \in 1..(Len(beats) - 1) |-> beats[i + 1] - beats[i]]

\* stable insertion sort, ascending
RECURSIVE InsertSorted(_, _)
InsertSorted(s, x) ==
    IF s = <<>> THEN <<x>>
    ELSE IF x < Head(s) THEN <<x>> \o s
    ELSE <<Head(s)>> \o InsertSorted(Tail(s), x)
RECURSIVE SortAsc(_)
SortAsc(s) == IF s = <<>> THEN <<>> ELSE InsertSorted(SortAsc(SubSeq(s, 1, Len(s) - 1)), Last(s))

\* twice the median (the median of an even-length array is a half-integer mean)
Median2(arr) ==
    LET sorted == SortAsc(arr)
        mid == Len(sorted) \div 2
    IN  IF Len(sorted) % 2 = 0 THEN sorted[mid] + sorted[mid + 1] ELSE 2 * sorted[mid + 1]

\* Math.abs(interval - median) < median * 0.3
IsValidInterval(interval, m2) == 10 * Abs(2 * interval - m2) < 3 * m2

RECURSIVE FilterValid(_, _)
FilterValid(s, m2) ==
    IF s = <<>> THEN <<>>
    ELSE IF IsValidInterval(Head(s), m2) THEN <<Head(s)>> \o FilterValid(Tail(s), m2)
    ELSE FilterValid(Tail(s), m2)

\* mutant: the sum of the intervals is used for their average
NewTempo_Sum(valid) == (120000 + SumSeq(valid)) \div (2 * SumSeq(valid))
\* Math.round(60000 / avgInterval), avgInterval = sum / count
NewTempo(valid) == (120000 * Len(valid) + SumSeq(valid)) \div (2 * SumSeq(valid))

\* Math.round(lastTempo * 0.9 + newTempo * (1 - 0.9))
SmoothTempo(lastTempo, newTempo) == (9 * lastTempo + newTempo + 5) \div 10

\* mutant: no lower clamp
ValidateTempo_NoFloor(t) == Min(maxTempo, t)
\* Math.max(60, Math.min(200, smoothedTempo))
ValidateTempo(t) == Max(minTempo, Min(maxTempo, t))

HeldTempo(th) == IF Len(th) > 0 THEN Last(th) ELSE defaultTempo

\* returns the tempo and the updated tempoHistory; beats is beatHistory after detectBeat
calculateTempo(beats, th, isBeat) ==
    IF ~isBeat \/ Len(beats) < 2
    THEN [tempo |-> HeldTempo(th), tempoHistory |-> th]
    ELSE LET intervals == Intervals(beats)
             valid == FilterValid(intervals, Median2(intervals))
         IN  IF Len(valid) = 0
             THEN [tempo |-> defaultTempo, tempoHistory |-> th]
             ELSE LET newTempo == NewTempo(valid)
                      lastTempo == IF Len(th) > 0 THEN Last(th) ELSE newTempo
                      finalTempo == ValidateTempo(SmoothTempo(lastTempo, newTempo))
                  IN  [tempo |-> finalTempo,
                       tempoHistory |-> PushCapped(th, finalTempo, tempoHistoryCap)]

\* -------------------------------------------------------- updateBeatPhase
\* mutant: the elapsed time is not wrapped into the beat period
updateBeatPhase_NoWrap(currentTime, tempo, lbt) ==
    IF lbt = 0 THEN 0 ELSE (currentTime - lbt) * tempo
\* lbt is lastBeatTime after detectBeat
updateBeatPhase(currentTime, tempo, lbt) ==
    IF lbt = 0 THEN 0
    ELSE ((currentTime - lbt) * tempo) % PhaseDen

\* ------------------------------------------------------ calculateIntensity
\* Math.min(1, (bass*0.4 + mid*0.3 + treble*0.2 + energy*0.1) * 2), in hundredths
calculateIntensity(bass, mid, treble, energy) ==
    Min(100, 8 * bass + 6 * mid + 4 * treble + 4 * energy)

\* --------------------------------------------------- rhythm pattern mining
\* number of positions at which two boolean arrays of equal length agree
RECURSIVE CountEqual(_, _)
CountEqual(a, b) ==
    IF a = <<>> \/ b = <<>> THEN 0
    ELSE (IF Head(a) = Head(b) THEN 1 ELSE 0) + CountEqual(Tail(a), Tail(b))

\* mutant: more than half of the positions are enough for a match
patternsMatch_Half(pattern1, pattern2) ==
    IF Len(pattern1) # Len(pattern2) THEN FALSE
    ELSE 2 * CountEqual(pattern1, pattern2) > Len(pattern1)
\* matches / pattern1.length > 0.8
patternsMatch(pattern1, pattern2) ==
    IF Len(pattern1) # Len(pattern2) THEN FALSE
    ELSE 5 * CountEqual(pattern1, pattern2) > 4 * Len(pattern1)

\* block starts i = length, 2*length, ... with i < buffer.length - length (0-based)
BlockStarts(pb, length) ==
    {i \in 1..Len(pb) : i % length = 0 /\ i < Len(pb) - length}

RECURSIVE SumOver(_, _, _)
SumOver(S, pb, pattern) ==
    IF S = {} THEN 0
    ELSE LET i == CHOOSE x \in S : TRUE
         IN  CountEqual(SubSeq(pb, i + 1, i + Len(pattern)), pattern)
             + SumOver(S \ {i}, pb, pattern)

\* matches / total, in 1/560
calculatePatternConfidence(pb, pattern, length) ==
    IF Len(pb) < length * 3 THEN 0
    ELSE LET starts == BlockStarts(pb, length)
             total == Cardinality(starts) * length
         IN  IF total > 0 THEN (SumOver(starts, pb, pattern) * PatDen) \div total ELSE 0

\* index of the first stored pattern of this period that matches, 0 if none
FindExisting(rp, pattern, length) ==
    LET hits == {i \in 1..Len(rp) : rp[i].period = length /\ patternsMatch(rp[i].pattern, pattern)}
    IN  IF hits = {} THEN 0 ELSE CHOOSE i \in hits : \A j \in hits : i <= j

\* existingPattern.confidence = Math.min(1, existingPattern.confidence + 0.1)
BumpConfidence(c) == Min(PatDen, c + 56)

\* one iteration of the loop over patternLengths
ProcessLength(pb, rp, length) ==
    IF Len(pb) < length * 2 THEN rp
    ELSE LET pattern == SliceLast(pb, length)
             confidence == calculatePatternConfidence(pb, pattern, length)
         IN  IF 10 * confidence > 6 * PatDen
             THEN LET e == FindExisting(rp, pattern, length)
                  IN  IF e # 0
                      THEN [rp EXCEPT ![e].confidence = BumpConfidence(rp[e].confidence)]
                      ELSE Append(rp, [pattern |-> pattern, confidence |-> confidence,
                                       period |-> length])
             ELSE rp

\* this.rhythmPatterns.filter(p => p.confidence > 0.3)
RECURSIVE FilterWeak(_)
FilterWeak(rp) ==
    IF rp = <<>> THEN <<>>
    ELSE IF 10 * Head(rp).confidence > 3 * PatDen THEN <<Head(rp)>> \o FilterWeak(Tail(rp))
    ELSE FilterWeak(Tail(rp))

\* stable sort by descending confidence
RECURSIVE InsertByConfidence(_, _)
InsertByConfidence(s, p) ==
    IF s = <<>> THEN <<p>>
    ELSE IF p.confidence > Head(s).confidence THEN <<p>> \o s
    ELSE <<Head(s)>> \o InsertByConfidence(Tail(s), p)
RECURSIVE SortByConfidence(_)
SortByConfidence(rp) ==
    IF rp = <<>> THEN <<>>
    ELSE InsertByConfidence(SortByConfidence(SubSeq(rp, 1, Len(rp) - 1)), Last(rp))

\* mutant: the first 5 patterns are kept without sorting by confidence
LimitPatterns_Unsorted(rp) ==
    IF Len(rp) > 5 THEN SubSeq(rp, 1, 5) ELSE rp
LimitPatterns(rp) ==
    IF Len(rp) > 5 THEN SubSeq(SortByConfidence(rp), 1, 5) ELSE rp

\* mutant: the pattern lengths are 3, 6 and 16
Candidates_Waltz(pb, rp) ==
    FilterWeak(ProcessLength(pb, ProcessLength(pb, ProcessLength(pb, rp, 3), 6), 16))
\* the stored patterns after the loop over patternLengths and the clean-up of
\* weak patterns, before the cut to 5
Candidates(pb, rp) ==
    FilterWeak(ProcessLength(pb, ProcessLength(pb, ProcessLength(pb, rp, 4), 8), 16))

analyzeRhythmPatterns(pb, rp) == LimitPatterns(Candidates(pb, rp))

MiningDue(pb) == Len(pb) >= 16 /\ Len(pb) % 16 = 0

\* returns the updated patternBuffer and rhythmPatterns
updateRhythmPatterns(pb, rp, isBeat) ==
    LET pushed == PushCapped(pb, isBeat, patternBufferCap)
    IN  [patternBuffer |-> pushed,
         rhythmPatterns |-> IF MiningDue(pushed) THEN analyzeRhythmPatterns(pushed, rp) ELSE rp]

\* ---------------------------------------------------- estimateTimeSignature
\* mutant: a strong pattern of period 4 or 8 is read as triple time
estimateTimeSignature_Triple(rp) ==
    LET periods == {rp[i].period : i \in {j \in 1..Len(rp) : 10 * rp[j].confidence > 7 * PatDen}}
    IN  IF periods = {} THEN 4
        ELSE IF 4 \in periods \/ 8 \in periods THEN 3
        ELSE IF 3 \in periods \/ 6 \in periods THEN 3
        ELSE IF 2 \in periods THEN 2
        ELSE 4
estimateTimeSignature(rp) ==
    LET periods == {rp[i].period : i \in {j \in 1..Len(rp) : 10 * rp[j].confidence > 7 * PatDen}}
    IN  IF periods = {} THEN 4
        ELSE IF 4 \in periods \/ 8 \in periods THEN 4
        ELSE IF 3 \in periods \/ 6 \in periods THEN 3
        ELSE IF 2 \in periods THEN 2
        ELSE 4

\* ============================================== AdvancedAudioAnalyzer (part)
\* Magnitudes frequencyData[i]/255 are held in fifths; ratios in millionths (ppm);
\* frequencies in hundredths of a Hz.
sampleRate == 44100
numCoefficients == 13
analysisHistoryCap == 1000
musicHistoryCap == 100
Ppm == 1000 * 1000
\* Math.log(0 + 1e-10), in ppm
LnTiny == 0 - 23025851

Magnitude(b) == b \div 51
BinFreq(i, N) == (i * sampleRate * 100) \div (2 * N)

\* a fraction <<num, den>> with 0 <= num <= den <= 10^6, in ppm
FracPpm(fr) ==
    LET q == (fr[1] * 1000) \div fr[2]
        r == (fr[1] * 1000) % fr[2]
    IN  q * 1000 + (r * 1000) \div fr[2]

calculateSpectralCentroid(freq) ==
    LET N == Len(freq)
        weightedSum == SumSeq([i \in 1..N |-> BinFreq(i - 1, N) * Magnitude(freq[i])])
        magnitudeSum == SumSeq([i \in 1..N |-> Magnitude(freq[i])])
    IN  IF magnitudeSum > 0 THEN weightedSum \div magnitudeSum ELSE 0

\* Math.round(12 * Math.log2(frequency / 440)) % 12, normalised into 0..11:
\* fold the frequency into the octave [440 * 2^(-1/24), 440 * 2^(23/24)) and
\* count the semitone boundaries 440 * 2^((2j+1)/24), j = 0..10, below it
SemitoneBounds == <<45289, 47982, 50836, 53858, 57061, 60454, 64049, 67857, 71892, 76167, 80696>>
RECURSIVE FoldOctave(_)
FoldOctave(f) ==
    IF f >= 85495 THEN FoldOctave(f \div 2)
    ELSE IF f < 42747 THEN FoldOctave(f * 2)
    ELSE f
PitchClass(f) == Cardinality({j \in 1..11 : SemitoneBounds[j] <= FoldOctave(f)})

\* bins of the musical range, frequency > 80 && frequency < 5000 (bin 0 is skipped)
MusicalBins(N) == {i \in 2..N : BinFreq(i - 1, N) > 8000 /\ BinFreq(i - 1, N) < 500000}

RECURSIVE SumMagnitudes(_, _)
SumMagnitudes(S, freq) ==
    IF S = {} THEN 0
    ELSE LET i == CHOOSE x \in S : TRUE
         IN  Magnitude(freq[i]) + SumMagnitudes(S \ {i}, freq)

\* the accumulator before normalisation: chroma[normalizedPitchClass] += magnitude
ChromaAccumulate(freq) ==
    LET N == Len(freq)
    IN  [pc \in 0..11 |->
           SumMagnitudes({i \in MusicalBins(N) : PitchClass(BinFreq(i - 1, N)) = pc}, freq)]

\* mutant: the accumulator is returned without the normalisation
calculateChroma_Unnormalised(freq) == ChromaAccumulate(freq)
\* the 12 pitch-class entries in ppm, normalised to sum 1 when any is non-zero
calculateChroma(freq) ==
    LET raw == ChromaAccumulate(freq)
        sum == raw[0] + raw[1] + raw[2] + raw[3] + raw[4] + raw[5] + raw[6] + raw[7]
               + raw[8] + raw[9] + raw[10] + raw[11]
    IN  [pc \in 0..11 |-> IF sum > 0 THEN (raw[pc] * Ppm) \div sum ELSE raw[pc]]

fundamentalFreqs == {82, 110, 147, 196, 247, 330, 440, 587, 784}
isLikelyHarmonic(f) ==
    \E fundamental \in fundamentalFreqs : \E harmonic \in 1..8 :
        Abs(f - fundamental * harmonic * 100) < 1000

calculateHarmonicRatio(freq) ==
    LET N == Len(freq)
        sq == [i \in 1..N |-> Magnitude(freq[i]) * Magnitude(freq[i])]
        totalEnergy == SumSeq(sq)
        harmonicEnergy ==
            SumSeq([i \in 1..N |-> IF isLikelyHarmonic(BinFreq(i - 1, N)) THEN sq[i] ELSE 0])
    IN  IF totalEnergy > 0 THEN (harmonicEnergy * Ppm) \div totalEnergy ELSE 0

\* createMelFilterBank gives every filter the width floor(spectrumLength / 13).
\* With width 0 (fewer than 13 bins) every filter is empty and every coefficient
\* is Math.log(1e-10).  With width 1 (13 to 25 bins) filter i has the single
\* non-zero weight 1 at its centre bin, so coefficient i is
\* Math.log(magnitude[centerBin] + 1e-10).
FilterWidth(N) == N \div numCoefficients
\* centerBin = floor(melToHz((i + 1) * hzToMel(22050) / 14) * 2 * 13 / 44100) of
\* the 13 filters of a 13-bin spectrum (0-based bins)
MelCentreBins == <<0, 0, 0, 0, 1, 1, 1, 2, 3, 4, 5, 7, 10>>
\* Math.log(k / 5 + 1e-10) in ppm, k = 0..5
LnFifths == <<LnTiny, 0 - 1609438, 0 - 916291, 0 - 510826, 0 - 223144, 0>>
calculateMFCC(freq) ==
    IF FilterWidth(Len(freq)) = 0 THEN [i \in 1..numCoefficients |-> LnTiny]
    ELSE [i \in 1..numCoefficients |-> LnFifths[Magnitude(freq[MelCentreBins[i] + 1]) + 1]]

\* crossings of the centre value 128 per sample, in ppm
calculateZeroCrossingRate(time) ==
    LET crossings ==
            Cardinality({i \in 2..Len(time) :
                            \/ (time[i - 1] >= 128 /\ time[i] < 128)
                            \/ (time[i - 1] < 128 /\ time[i] >= 128)})
    IN  (crossings * Ppm) \div Len(time)

\* mutant: the oldest record of the history is read
calculateSpectralFlux_Oldest(freq, history) ==
    IF Len(history) = 0 THEN 0
    ELSE LET prevMfcc == history[1].mfcc
             minLength == Min(Len(freq), 128)
             diff(i) == LET current == Magnitude(freq[i]) * (Ppm \div 5)
                            previous == IF i <= Len(prevMfcc) THEN prevMfcc[i] ELSE 0
                        IN  Max(0, current - previous)
         IN  SumSeq([i \in 1..minLength |-> diff(i)]) \div minLength
\* history is analysisHistory before this tick's push; only the mfcc vector of
\* its last record is read
calculateSpectralFlux(freq, history) ==
    IF Len(history) = 0 THEN 0
    ELSE LET prevMfcc == Last(history).mfcc
             minLength == Min(Len(freq), 128)
             diff(i) == LET current == Magnitude(freq[i]) * (Ppm \div 5)
                            previous == IF i <= Len(prevMfcc) THEN prevMfcc[i] ELSE 0
                        IN  Max(0, current - previous)
         IN  SumSeq([i \in 1..minLength |-> diff(i)]) \div minLength

calculatePercussiveRatio(freq, history, confidence) ==
    LET N == Len(freq)
        startIdx == (N * 7) \div 10
        highFreqEnergy ==
            SumSeq([i \in 1..(N - startIdx) |->
                      Magnitude(freq[startIdx + i]) * Magnitude(freq[startIdx + i])])
        normalizedHighFreq == (highFreqEnergy * (Ppm \div 25)) \div (N - startIdx)
    IN  (4 * calculateSpectralFlux(freq, history) + 4 * FracPpm(confidence)
         + 2 * normalizedHighFreq) \div 10

\* the fields of AdvancedAudioFeatures the model follows
analyzeAdvancedFeatures(frame, beatData, history) ==
    [spectralCentroid |-> calculateSpectralCentroid(frame.freq),
     spectralFlux |-> calculateSpectralFlux(frame.freq, history),
     zeroCrossingRate |-> calculateZeroCrossingRate(frame.time),
     mfcc |-> calculateMFCC(frame.freq),
     chroma |-> calculateChroma(frame.freq),
     harmonicRatio |-> calculateHarmonicRatio(frame.freq),
     percussiveRatio |-> calculatePercussiveRatio(frame.freq, history, beatData.confidence)]

\* the part of a features record kept in the model's analysisHistory
HistoryRecord(features) ==
    [spectralCentroid |-> features.spectralCentroid,
     spectralFlux |-> features.spectralFlux,
     mfcc |-> features.mfcc]

majorProfile == {0, 2, 4, 5, 7, 9, 11}
RECURSIVE SumChroma(_, _)
SumChroma(S, chroma) ==
    IF S = {} THEN 0
    ELSE LET i == CHOOSE x \in S : TRUE IN chroma[i] + SumChroma(S \ {i}, chroma)
getMajorKeyStrength(chroma) == SumChroma(majorProfile, chroma) \div 7

\* Math.min(1, majorKeyStrength * 0.4 + brightness * 0.3 + harmonicity * 0.3)
calculateValence(chroma, centroid, harmonicRatio) ==
    Min(Ppm, (4 * getMajorKeyStrength(chroma) + 3 * (2 * centroid) + 3 * harmonicRatio) \div 10)

\* rhythmStrength = beatData.confidence || 0.5
calculateDanceability(confidence, percussiveRatio, spectralFlux) ==
    LET rhythmStrength == IF confidence[1] = 0 THEN Ppm \div 2 ELSE FracPpm(confidence)
        regularity == Ppm - spectralFlux
    IN  Min(Ppm, (5 * rhythmStrength + 3 * percussiveRatio + 2 * regularity) \div 10)

\* lowFreqBias = 1 - spectralCentroid / 5000
calculateAcousticness(centroid, harmonicRatio, spectralFlux) ==
    LET lowFreqBias == Ppm - 2 * centroid
        naturalness == Ppm - spectralFlux
    IN  Min(Ppm, (4 * lowFreqBias + 4 * harmonicRatio + 2 * naturalness) \div 10)

\* the standard deviation of the array (the method returns Math.sqrt(variance)),
\* in ppm; computed in hundredths when the entries differ
calculateVariance(array) ==
    IF \A i \in 1..Len(array) : array[i] = array[1] THEN 0
    ELSE LET n == Len(array)
             c == [i \in 1..n |-> array[i] \div 10000]
             var == (n * SumSqSeq(c) - SumSeq(c) * SumSeq(c)) \div (n * n)
         IN  10000 * (CHOOSE r \in 0..3000 : r * r <= var /\ var < (r + 1) * (r + 1))

calculateInstrumentalness(zeroCrossingRate, mfcc) ==
    LET lowZCR == Ppm - zeroCrossingRate
        consistency == Ppm - calculateVariance(mfcc)
    IN  Min(Ppm, (6 * lowZCR + 4 * consistency) \div 10)

\* mutant: the second branch tests valence < 0.5
MoodBranch_CalmLow(energy30, valence, centroid, percussiveRatio) ==
    IF energy30 > 21 /\ valence > 600000 THEN 1
    ELSE IF energy30 < 12 /\ valence < 500000 THEN 2
    ELSE IF valence < 300000 \/ centroid < 100000 THEN 3
    ELSE IF valence > 700000 /\ centroid > 200000 THEN 4
    ELSE IF energy30 < 15 /\ valence < 500000 THEN 5
    ELSE IF valence > 600000 /\ energy30 < 18 THEN 6
    ELSE IF energy30 > 24 /\ percussiveRatio > 700000 THEN 7
    ELSE 8
\* the branch of the cascade that returns; energy30 = bass + mid + treble in tenths,
\* so energy = energy30 / 30
MoodBranch(energy30, valence, centroid, percussiveRatio) ==
    IF energy30 > 21 /\ valence > 600000 THEN 1
    ELSE IF energy30 < 12 /\ valence > 500000 THEN 2
    ELSE IF valence < 300000 \/ centroid < 100000 THEN 3
    ELSE IF valence > 700000 /\ centroid > 200000 THEN 4
    ELSE IF energy30 < 15 /\ valence < 500000 THEN 5
    ELSE IF valence > 600000 /\ energy30 < 18 THEN 6
    ELSE IF energy30 > 24 /\ percussiveRatio > 700000 THEN 7
    ELSE 8
MoodLabels == <<"energetic", "calm", "dark", "uplifting", "mysterious", "romantic",
                "aggressive", "calm">>
detectMood(energy30, valence, centroid, percussiveRatio) ==
    MoodLabels[MoodBranch(energy30, valence, centroid, percussiveRatio)]

keys == <<"C", "C#", "D", "D#", "E", "F", "F#", "G", "G#", "A", "A#", "B">>
\* dotProduct(chroma, [...majorProfile.slice(i), ...majorProfile.slice(0, i)]):
\* entry j of the rotated profile is entry (j + i) % 12 of majorProfile
KeyCorrelation(chroma, i) == SumChroma({j \in 0..11 : (j + i) % 12 \in majorProfile}, chroma)
\* the first rotation whose correlation is the largest (the loop replaces the
\* best only on a strictly greater correlation, starting from -1)
detectKey(chroma) ==
    LET best == CHOOSE i \in 0..11 :
                    /\ \A j \in 0..11 : KeyCorrelation(chroma, j) <= KeyCorrelation(chroma, i)
                    /\ \A j \in 0..(i - 1) : KeyCorrelation(chroma, j) < KeyCorrelation(chroma, i)
    IN  keys[best + 1]

\* the fields of MusicCharacteristics the model follows; energy is kept as
\* energy30 = bass + mid + treble in tenths (energy = energy30 / 30)
generateMusicCharacteristics(frame, beatData, features) ==
    LET valence == calculateValence(features.chroma, features.spectralCentroid,
                                    features.harmonicRatio)
        energy30 == frame.bass + frame.mid + frame.treble
    IN  [tempo |-> IF beatData.tempo # 0 THEN beatData.tempo ELSE 120,
         energy |-> energy30,
         valence |-> valence,
         danceability |-> calculateDanceability(beatData.confidence, features.percussiveRatio,
                                                features.spectralFlux),
         acousticness |-> calculateAcousticness(features.spectralCentroid,
                                                features.harmonicRatio, features.spectralFlux),
         instrumentalness |-> calculateInstrumentalness(features.zeroCrossingRate,
                                                        features.mfcc),
         mood |-> detectMood(energy30, valence, features.spectralCentroid,
                             features.percussiveRatio),
         branch |-> MoodBranch(energy30, valence, features.spectralCentroid,
                               features.percussiveRatio),
         timeSignature |-> IF beatData.timeSignature # 0 THEN beatData.timeSignature ELSE 4,
         key |-> detectKey(features.chroma)]

\* ================================================================== inputs
\* A SpectralFrame as analyze receives it: the frequency array (13 bins, all at
\* one level), the time-domain array and the band values the caller passes.
Spectrum(level) == [i \in 1..numCoefficients |-> level]
Silence == [freq |-> Spectrum(0), time |-> <<0, 0, 0, 0>>, bass |-> 0, mid |-> 0, treble |-> 0]
Hum == [freq |-> Spectrum(51), time |-> <<128, 130, 128, 130>>, bass |-> 1, mid |-> 2, treble |-> 1]
Kick == [freq |-> Spectrum(255), time |-> <<128, 255, 128, 0>>, bass |-> 10, mid |-> 5, treble |-> 2]
Hiss == [freq |-> Spectrum(255), time |-> <<255, 0, 255, 0>>, bass |-> 0, mid |-> 3, treble |-> 10]
Blast == [freq |-> Spectrum(255), time |-> <<255, 0, 255, 0>>, bass |-> 10, mid |-> 10, treble |-> 10]

\* An audio source is a periodic click train: every period-th tick carries the
\* click frame, the others the rest frame; gap is the clock advance per tick (ms).
ClickTrain(click, rest, period, gap) ==
    [click |-> click, rest |-> rest, period |-> period, gap |-> gap]
SilentTrain == ClickTrain(Silence, Silence, 1, 16)
Trains ==
    { ClickTrain(Kick, Silence, 2, 150),
      ClickTrain(Kick, Silence, 2, 250),
      ClickTrain(Kick, Silence, 2, 100),
      ClickTrain(Kick, Silence, 2, 1000),
      ClickTrain(Blast, Hum, 5, 100),
      ClickTrain(Hiss, Silence, 2, 250),
      SilentTrain }

\* Spectra of 64 bins (344.5 Hz apart) for the chroma and key functions: the bins
\* of loud are at level 255, those of soft at level 102, all others at 0.
\* Bins 1..14 lie in the musical range (80 Hz, 5000 Hz).
Lit(loud, soft) ==
    [i \in 1..64 |-> IF (i - 1) \in loud THEN 255 ELSE IF (i - 1) \in soft THEN 102 ELSE 0]
LoudBins == {5, 7, 13, 3, 20}
SoftBins == {10, 14, 9, 0}
Spectra == {Lit(loud, soft) : loud \in SUBSET LoudBins, soft \in SUBSET SoftBins}
ToneFrame(spectrum) ==
    [freq |-> spectrum, time |-> <<128, 128, 128, 128>>, bass |-> 0, mid |-> 0, treble |-> 0]

\* ------------------------------------------------------ PollinationsAI cache
maxCacheSize == 50
\* commonPrompts.length
preloadCount == 3

Without(s, x) == SelectSeq(s, LAMBDA y : y # x)
Contains(s, x) == \E i \in 1..Len(s) : s[i] = x

\* the Map's keys after addToCache(key, image)
addToCache(keys_, key) ==
    LET room == IF Len(keys_) >= maxCacheSize THEN Tail(keys_) ELSE keys_
    IN  IF Contains(room, key) THEN room ELSE Append(room, key)

\* --------------------------------------------- NarrativeTransitionEngine
transitionHistoryCap == 20
\* the durations of the transition effects, in ms
transitionEffects ==
    [fade |-> 2000, dissolve |-> 3000, spiral |-> 4000, particle_burst |-> 2500,
     color_shift |-> 3500, zoom |-> 2000]

\* thresholds: energy_change and frequency_shift in tenths, tempo_change in BPM;
\* minDuration in ms, energyDelta in tenths
SpaceToUnderwater ==
    [toTheme |-> "underwater-adventure",
     triggers |-> <<[type |-> "energy_change", threshold |-> 3, priority |-> 8],
                    [type |-> "mood_change", threshold |-> 5, priority |-> 7]>>,
     effects |-> {"dissolve", "color_shift"},
     minDuration |-> 15000, energyDelta |-> 2,
     moodCompatibility |-> {"calm", "mysterious", "romantic"}]
UnderwaterToSpace ==
    [toTheme |-> "space-odyssey",
     triggers |-> <<[type |-> "energy_change", threshold |-> 4, priority |-> 8],
                    [type |-> "tempo_change", threshold |-> 20, priority |-> 6]>>,
     effects |-> {"spiral", "particle_burst"},
     minDuration |-> 12000, energyDelta |-> 3,
     moodCompatibility |-> {"energetic", "uplifting", "mysterious"}]
ToAbstractDreams ==
    [toTheme |-> "abstract-dreams",
     triggers |-> <<[type |-> "frequency_shift", threshold |-> 6, priority |-> 5]>>,
     effects |-> {"fade", "zoom"},
     minDuration |-> 20000, energyDelta |-> 1,
     moodCompatibility |-> {"mysterious", "dark", "calm"}]
\* this.transitionRules.get(themeId) || []
transitionRules(themeId) ==
    IF themeId = "space-odyssey" THEN <<SpaceToUnderwater, ToAbstractDreams>>
    ELSE IF themeId = "underwater-adventure" THEN <<UnderwaterToSpace, ToAbstractDreams>>
    ELSE IF themeId \in {"forest-journey", "urban-nightscape"} THEN <<ToAbstractDreams>>
    ELSE <<>>

\* findThemeById(themeId) returns a theme
basicThemes == {"space-odyssey", "underwater-adventure"}
findThemeById(themeId) == themeId \in basicThemes

\* the sum of values.slice(-from, -to) (to = 0: up to the end)
SliceSum(values, from, to) ==
    LET first == Max(0, Len(values) - from) + 1
        last == Len(values) - to
    IN  SumSeq([i \in 1..Max(0, last - first + 1) |-> values[first + i - 1]])
\* the fields m.energy and m.tempo of the entries of the music history
EnergyOf(history) == [i \in 1..Len(history) |-> history[i].energy]
TempoOf(history) == [i \in 1..Len(history) |-> history[i].tempo]

\* the means are sums over 5 entries of energy30 = 30 * energy, so a difference
\* of means of t tenths is a difference of sums of 15 * t
evaluateTrigger(trigger, audioData, characteristics, history) ==
    IF trigger.type = "energy_change"
    THEN /\ Len(history) >= 10
         /\ Abs(SliceSum(EnergyOf(history), 5, 0) - SliceSum(EnergyOf(history), 10, 5))
               >= 15 * trigger.threshold
    ELSE IF trigger.type = "tempo_change"
    THEN /\ Len(history) >= 5
         /\ Abs(SliceSum(TempoOf(history), 3, 0) - SliceSum(TempoOf(history), 6, 3))
               >= 3 * trigger.threshold
    ELSE IF trigger.type = "mood_change"
    THEN /\ Len(history) >= 3
         /\ history[Len(history) - 2].mood # characteristics.mood
    ELSE IF trigger.type = "frequency_shift"
    THEN LET total == audioData.bass + audioData.mid + audioData.treble
         IN  /\ total # 0
             /\ 10 * Abs(audioData.bass - audioData.treble) >= trigger.threshold * total
    ELSE FALSE

\* the three checks a rule passes before its triggers are evaluated
ConditionsHold(rule, characteristics, history, currentTime, sceneStart) ==
    /\ currentTime - sceneStart >= rule.minDuration
    /\ Len(history) > 10 =>
          Abs(SliceSum(EnergyOf(history), 5, 0) - SliceSum(EnergyOf(history), 15, 10))
             >= 15 * rule.energyDelta
    /\ characteristics.mood \in rule.moodCompatibility

\* the results evaluateTransitionTriggers may return (none: null): the target
\* of the first trigger of the highest priority among the triggers that are met
\* and whose target theme is found, with either effect of its rule
evaluateTransitionTriggers(audioData, characteristics, history, themeId, currentTime, sceneStart) ==
    LET rules == transitionRules(themeId)
        met == {rt \in {<<r, t>> : r \in 1..Len(rules), t \in 1..2} :
                   /\ rt[2] <= Len(rules[rt[1]].triggers)
                   /\ ConditionsHold(rules[rt[1]], characteristics, history, currentTime,
                                     sceneStart)
                   /\ evaluateTrigger(rules[rt[1]].triggers[rt[2]], audioData,
                                      characteristics, history)
                   /\ findThemeById(rules[rt[1]].toTheme)}
        priority(rt) == rules[rt[1]].triggers[rt[2]].priority
        before(a, b) == a[1] < b[1] \/ (a[1] = b[1] /\ a[2] < b[2])
        best == {a \in met : \A b \in met \ {a} :
                    priority(b) < priority(a) \/ (priority(b) = priority(a) /\ before(a, b))}
    IN  {[toTheme |-> rules[a[1]].toTheme, effect |-> e] :
            a \in best, e \in UNION {rules[b[1]].effects : b \in best}}

\* the activeTransition startTransition creates; serial numbers the transitions
\* of a run, progress is elapsed / duration
startTransition(transition, fromScene, currentTime, serial) ==
    [serial |-> serial,
     fromScene |-> fromScene,
     toScene |-> [themeId |-> transition.toTheme, createdAt |-> currentTime],
     effect |-> transition.effect,
     startTime |-> currentTime,
     duration |-> transitionEffects[transition.effect],
     elapsed |-> 0,
     isActive |-> TRUE]

\* mutant: the progress is not cut at 1
updateActiveTransition_NoClamp(active, dt) ==
    [active EXCEPT !.elapsed = active.elapsed + dt,
                   !.isActive = active.elapsed + dt < active.duration]
\* progress += deltaTime / duration; at 1 or more: progress = 1, isActive = false
updateActiveTransition(active, dt) ==
    IF active.elapsed + dt >= active.duration
    THEN [active EXCEPT !.elapsed = active.duration, !.isActive = FALSE]
    ELSE [active EXCEPT !.elapsed = active.elapsed + dt]

\* =================================================================== state
VARIABLES
    energyHistory, bassHistory, midHistory, trebleHistory,
    beatHistory, tempoHistory, lastBeatTime, beatPhase,
    patternBuffer, rhythmPatterns,
    analysisHistory,      \* analysisHistory of the AdvancedAudioAnalyzer
    features,             \* AdvancedAudioFeatures extracted on the last tick
    musicHistory,         \* musicHistory of the NarrativeTransitionEngine
    lastMining,           \* the tick of the latest analyzeRhythmPatterns call (0: none)
    miningGap,            \* ticks between the latest two such calls (0: fewer than two)
    candidates,           \* the patterns the last mining held before the cut to 5
    prevPatterns,         \* rhythmPatterns as the last tick found them
    now,                  \* the value Date.now() returned on the last tick
    out,                  \* BeatData returned by the last analyze
    chars,                \* MusicCharacteristics produced on the last tick
    train, pos,           \* the audio source and the position in its period
    input,                \* the frame fed on the last tick
    ticks, changed, resets,
    lastOp, prevOp,       \* the last two operations
    prevOut,              \* BeatData returned by the tick before the last
    beatsEver,            \* beats accepted since construction
    beatsSince,           \* beats accepted since construction or the last reset
    run500,               \* accepted beats in a row spaced exactly 500 ms
    silentRun,            \* all-zero frames fed in a row
    left, right,          \* two inputs of generateMusicCharacteristics and their results
    cache,                \* the keys of PollinationsAI.cache in the Map's iteration order
    pending,              \* the keys of the image loads in flight, oldest first
    uses,                 \* the cached keys, least recently inserted or served first
    evicted, victim,      \* the key the last insertion deleted and the least recently
                          \* used key at that moment (0: the insertion deleted nothing)
    nextKey,              \* the next cache key never requested before
    detours,              \* cache hits, repeated requests and loads settled out of order
    cacheOp,              \* the last operation on the cache
    audioBuffer,          \* AudioAnalyzer: TRUE once a buffer is loaded
    sourceNode,           \* the index in nodes of this.sourceNode (0: null)
    isPlaying, startTime, pauseTime,
    nodes,                \* the AudioBufferSourceNodes created so far
    audioTime,            \* audioContext.currentTime
    playOp,               \* the last AudioAnalyzer method called
    mark,                 \* the position of the last pause() or seekTo() while not playing
    activeTransition, currentScene, sceneStartTime, transitionHistory,
                          \* fields of the NarrativeTransitionEngine
    clock,                \* the value Date.now() returns to the engine's next call (ms)
    theme,                \* the id of the currentTheme passed to update()
    moment,               \* the audio data and characteristics passed to update()
    switched,             \* the music passed to update() has changed
    deltaTime,            \* the deltaTime passed to update() (ms)
    started, completed,   \* transitions started so far; the serials of the completed
    idle, triggers,       \* update() calls without a transition; triggerTransition() calls
    engOp                 \* the last call on the engine

detVars == <<energyHistory, bassHistory, midHistory, trebleHistory, beatHistory,
             tempoHistory, lastBeatTime, beatPhase, patternBuffer, rhythmPatterns>>
anaVars == <<analysisHistory, features, musicHistory, lastMining, miningGap, candidates,
             prevPatterns>>
envVars == <<now, out, chars, train, pos, input, ticks, changed, resets, lastOp, prevOp,
            prevOut, beatsEver, beatsSince, run500, silentRun>>
moodVars == <<left, right>>
cacheVars == <<cache, pending, uses, evicted, victim, nextKey, detours, cacheOp>>
playVars == <<audioBuffer, sourceNode, isPlaying, startTime, pauseTime, nodes, audioTime,
             playOp, mark>>
engVars == <<activeTransition, currentScene, sceneStartTime, transitionHistory, clock,
            theme, moment, switched, deltaTime, started, completed, idle, triggers, engOp>>
compVars == <<moodVars, cacheVars, playVars, engVars>>
vars == <<moodVars, cacheVars, playVars, engVars, energyHistory, bassHistory, midHistory, trebleHistory, beatHistory,
          tempoHistory, lastBeatTime, beatPhase, patternBuffer, rhythmPatterns,
          analysisHistory, features, musicHistory, lastMining, miningGap, candidates,
          prevPatterns, now, out, chars, train, pos, input, ticks, changed, resets,
          lastOp, prevOp, prevOut, beatsEver, beatsSince, run500, silentRun>>

NoTransition == [serial |-> 0]
NoScene == [themeId |-> "none"]
\* the first call on the engine is made at this value of Date.now() (ms)
FirstCall == 100 * 1000

\* what the caller passes to update(): band levels in tenths and the
\* characteristics derived from them (energy30 = bass + mid + treble)
QuietMoment ==
    [audio |-> [bass |-> 1, mid |-> 0, treble |-> 1],
     chars |-> [energy |-> 2, tempo |-> 90, mood |-> "calm"]]
TrebleMoment ==
    [audio |-> [bass |-> 0, mid |-> 3, treble |-> 10],
     chars |-> [energy |-> 13, tempo |-> 120, mood |-> "mysterious"]]
LoudMoment ==
    [audio |-> [bass |-> 10, mid |-> 10, treble |-> 10],
     chars |-> [energy |-> 30, tempo |-> 150, mood |-> "energetic"]]
Moments == {QuietMoment, TrebleMoment, LoudMoment}
EngineThemes == {"space-odyssey", "underwater-adventure", "forest-journey"}
DeltaTimes == {1000, 2000}

\* field initialisers of AdvancedBeatDetector
FreshDetector ==
    /\ energyHistory = <<>>
    /\ bassHistory = <<>>
    /\ midHistory = <<>>
    /\ trebleHistory = <<>>
    /\ beatHistory = <<>>
    /\ tempoHistory = <<>>
    /\ lastBeatTime = 0
    /\ beatPhase = 0
    /\ patternBuffer = <<>>
    /\ rhythmPatterns = <<>>

NoBeatData ==
    [isBeat |-> FALSE, confidence |-> <<0, 1>>, tempo |-> 120, timeSignature |-> 4,
     beatPhase |-> 0, intensity |-> 0]
NoFeatures ==
    [spectralCentroid |-> 0, spectralFlux |-> 0, zeroCrossingRate |-> 0,
     mfcc |-> <<>>, chroma |-> [pc \in 0..11 |-> 0], harmonicRatio |-> 0,
     percussiveRatio |-> 0]
NoCharacteristics ==
    [tempo |-> 120, energy |-> 0, valence |-> 0, danceability |-> 0, acousticness |-> 0,
     instrumentalness |-> 0, mood |-> "calm", branch |-> 8, timeSignature |-> 4,
     key |-> "C"]

\* no input is held for generateMusicCharacteristics
NoMoodInput == [frame |-> Silence, beatData |-> NoBeatData, features |-> NoFeatures,
                chars |-> NoCharacteristics, done |-> FALSE]
NoMoodInputs == left = NoMoodInput /\ right = NoMoodInput

\* PollinationsAI as constructed: the cache is empty and the first of the three
\* preloads (keys 1, 2, 3, loaded one after the other) is in flight
NewPollinationsAI ==
    /\ cache = <<>>
    /\ pending = <<1>>
    /\ uses = <<>>
    /\ evicted = 0 /\ victim = 0
    /\ nextKey = preloadCount + 1
    /\ detours = 0
    /\ cacheOp = "new"

\* field initialisers of AudioAnalyzer; no buffer is loaded
NewAudioAnalyzer ==
    /\ audioBuffer = FALSE
    /\ sourceNode = 0
    /\ isPlaying = FALSE
    /\ startTime = 0
    /\ pauseTime = 0
    /\ nodes = <<>>
    /\ audioTime = 0
    /\ playOp = "new"
    /\ mark = 0

\* field initialisers of NarrativeTransitionEngine; no call was made
NewNarrativeTransitionEngine ==
    /\ activeTransition = NoTransition
    /\ currentScene = NoScene
    /\ sceneStartTime = 0
    /\ transitionHistory = <<>>
    /\ clock = FirstCall
    /\ started = 0 /\ completed = {}
    /\ idle = 0 /\ triggers = 0
    /\ switched = FALSE
    /\ engOp = "new"
EngineUnused ==
    /\ NewNarrativeTransitionEngine
    /\ theme = "space-odyssey"
    /\ moment = QuietMoment
    /\ deltaTime = 1000

\* the other components as constructed
Components == NoMoodInputs /\ NewPollinationsAI /\ NewAudioAnalyzer /\ EngineUnused

Init ==
    /\ FreshDetector
    /\ analysisHistory = <<>>
    /\ features = NoFeatures
    /\ musicHistory = <<>>
    /\ lastMining = 0 /\ miningGap = 0 /\ candidates = <<>>
    /\ prevPatterns = <<>>
    /\ now = 0
    /\ out = NoBeatData
    /\ prevOut = NoBeatData
    /\ chars = NoCharacteristics
    /\ train \in Trains
    /\ pos = 0
    /\ input = Silence
    /\ ticks = 0 /\ changed = FALSE /\ resets = 0
    /\ lastOp = "new" /\ prevOp = "new"
    /\ beatsEver = 0 /\ beatsSince = 0 /\ run500 = 0 /\ silentRun = 0
    /\ Components

\* ================================================================= actions
\* One tick of the animation loop on the frame the source delivers at clock value
\* currentTime: AdvancedBeatDetector.analyze, then analyzeAdvancedFeatures and
\* generateMusicCharacteristics.  (Each intermediate result is bound once.)
Tick(frame, currentTime) ==
    /\ input' = frame
    /\ now' = currentTime
    /\ bassHistory' = PushCapped(bassHistory, frame.bass, maxHistory)
    /\ midHistory' = PushCapped(midHistory, frame.mid, maxHistory)
    /\ trebleHistory' = PushCapped(trebleHistory, frame.treble, maxHistory)
    /\ \E energy \in {calculateEnergy(frame.freq)} :
         /\ energyHistory' = PushCapped(energyHistory, energy, historySize)
         /\ \E beatResult \in {detectBeat(energyHistory', bassHistory', beatHistory,
                                          lastBeatTime, energy, currentTime)} :
              /\ beatHistory' = beatResult.beatHistory
              /\ lastBeatTime' = beatResult.lastBeatTime
              /\ \E tempoResult \in {calculateTempo(beatHistory', tempoHistory,
                                                    beatResult.isBeat)} :
                   /\ tempoHistory' = tempoResult.tempoHistory
                   /\ beatPhase' = updateBeatPhase(currentTime, tempoResult.tempo, lastBeatTime')
                   /\ \E patterns \in {updateRhythmPatterns(patternBuffer, rhythmPatterns,
                                                            beatResult.isBeat)} :
                        /\ patternBuffer' = patterns.patternBuffer
                        /\ rhythmPatterns' = patterns.rhythmPatterns
                        /\ prevPatterns' = rhythmPatterns
                        /\ candidates' = IF MiningDue(patterns.patternBuffer)
                                         THEN Candidates(patterns.patternBuffer, rhythmPatterns)
                                         ELSE <<>>
                        /\ lastMining' = IF MiningDue(patterns.patternBuffer)
                                         THEN ticks + 1 ELSE lastMining
                        /\ miningGap' = IF MiningDue(patterns.patternBuffer) /\ lastMining > 0
                                        THEN ticks + 1 - lastMining ELSE miningGap
                   /\ out' = [isBeat |-> beatResult.isBeat,
                              confidence |-> beatResult.confidence,
                              tempo |-> tempoResult.tempo,
                              timeSignature |-> estimateTimeSignature(rhythmPatterns'),
                              beatPhase |-> beatPhase',
                              intensity |-> calculateIntensity(frame.bass, frame.mid,
                                                               frame.treble, energy)]
              /\ beatsEver' = IF beatResult.isBeat THEN beatsEver + 1 ELSE beatsEver
              /\ beatsSince' = IF beatResult.isBeat THEN beatsSince + 1 ELSE beatsSince
              /\ run500' = IF ~beatResult.isBeat THEN run500
                           ELSE IF run500 > 0 /\ currentTime - lastBeatTime = 500
                                THEN run500 + 1
                           ELSE 1
    /\ prevOut' = out
    /\ features' = analyzeAdvancedFeatures(frame, out', analysisHistory)
    /\ analysisHistory' = PushCapped(analysisHistory, HistoryRecord(features'),
                                     analysisHistoryCap)
    /\ chars' = generateMusicCharacteristics(frame, out', features')
    \* NarrativeTransitionEngine.update (story mode, a theme is selected)
    /\ musicHistory' = PushCapped(musicHistory, chars', musicHistoryCap)
    /\ silentRun' = IF frame = Silence THEN silentRun + 1 ELSE 0
    /\ pos' = (pos + 1) % train.period
    /\ ticks' = ticks + 1
    /\ lastOp' = "analyze" /\ prevOp' = lastOp
    /\ UNCHANGED compVars

SourceFrame == IF pos = 0 THEN train.click ELSE train.rest

Analyze ==
    /\ ticks < MaxTicks
    /\ Tick(SourceFrame, now + train.gap)
    /\ UNCHANGED <<train, changed, resets>>

\* mutant: reset() forgets tempoHistory
Reset_KeepsTempo ==
    /\ resets = 0 \/ lastOp = "reset"
    /\ ~changed
    /\ energyHistory' = <<>>
    /\ beatHistory' = <<>>
    /\ bassHistory' = <<>>
    /\ midHistory' = <<>>
    /\ trebleHistory' = <<>>
    /\ rhythmPatterns' = <<>>
    /\ patternBuffer' = <<>>
    /\ lastBeatTime' = 0
    /\ beatPhase' = 0
    /\ resets' = Min(2, resets + 1)
    /\ run500' = 0
    /\ beatsSince' = 0
    /\ lastOp' = "reset" /\ prevOp' = lastOp
    /\ UNCHANGED <<tempoHistory, anaVars, now, out, prevOut, chars, train, pos, input,
                   ticks, changed, beatsEver, silentRun, compVars>>

\* AdvancedBeatDetector.reset(); a run resets the detector at one moment
\* (possibly several times in a row) and only on an unchanged source
Reset ==
    /\ resets = 0 \/ lastOp = "reset"
    /\ ~changed
    /\ energyHistory' = <<>>
    /\ beatHistory' = <<>>
    /\ tempoHistory' = <<>>
    /\ bassHistory' = <<>>
    /\ midHistory' = <<>>
    /\ trebleHistory' = <<>>
    /\ rhythmPatterns' = <<>>
    /\ patternBuffer' = <<>>
    /\ lastBeatTime' = 0
    /\ beatPhase' = 0
    /\ resets' = Min(2, resets + 1)
    /\ run500' = 0
    /\ beatsSince' = 0
    /\ lastOp' = "reset" /\ prevOp' = lastOp
    /\ UNCHANGED <<anaVars, now, out, prevOut, chars, train, pos, input, ticks, changed,
                   beatsEver, silentRun, compVars>>

\* the audio source changes once (the music changes character), at the start of
\* a period of the running train
Retune ==
    /\ ~changed
    /\ resets = 0
    /\ pos = 0
    /\ ticks < MaxTicks
    /\ \E t \in Trains \ {train} : train' = t
    /\ changed' = TRUE
    /\ UNCHANGED <<detVars, anaVars, now, out, prevOut, chars, pos, input, ticks, resets,
                   lastOp, prevOp, beatsEver, beatsSince, run500, silentRun, compVars>>

Next == Analyze \/ Reset \/ Retune

Spec == Init /\ [][Next]_vars

\* ------------------------------------------------------ a long-running source
\* one source plays for more ticks than the analyzer's history holds records
Stream ==
    /\ ticks < MaxLongTicks
    /\ Tick(SourceFrame, now + train.gap)
    /\ UNCHANGED <<train, changed, resets>>

NextLong == Stream

SpecLong == Init /\ [][NextLong]_vars

\* ------------------------------------------------ the silent-input scenario
\* a source plays for up to WarmTicks ticks, then all-zero frames follow
Warm ==
    /\ train # SilentTrain
    /\ ticks < WarmTicks
    /\ Tick(SourceFrame, now + train.gap)
    /\ UNCHANGED <<train, changed, resets>>

GoSilent ==
    /\ train # SilentTrain
    /\ train' = SilentTrain
    /\ pos' = 0
    /\ changed' = TRUE
    /\ UNCHANGED <<detVars, anaVars, now, out, prevOut, chars, input, ticks, resets,
                   lastOp, prevOp, beatsEver, beatsSince, run500, silentRun, compVars>>

SilentTick ==
    /\ train = SilentTrain
    /\ silentRun < MaxSilentRun
    /\ Tick(SourceFrame, now + train.gap)
    /\ UNCHANGED <<train, changed, resets>>

NextSilence == Warm \/ GoSilent \/ SilentTick

SpecSilence == Init /\ [][NextSilence]_vars

\* --------------------------------------------- chroma and key of one spectrum
\* calculateChroma and detectKey applied to one spectrum of Spectra
InitTone ==
    /\ FreshDetector
    /\ analysisHistory = <<>>
    /\ features = NoFeatures
    /\ musicHistory = <<>>
    /\ lastMining = 0 /\ miningGap = 0 /\ candidates = <<>>
    /\ prevPatterns = <<>>
    /\ now = 0
    /\ out = NoBeatData
    /\ prevOut = NoBeatData
    /\ chars = NoCharacteristics
    /\ train = SilentTrain
    /\ pos = 0
    /\ input \in {ToneFrame(spectrum) : spectrum \in Spectra}
    /\ ticks = 0 /\ changed = FALSE /\ resets = 0
    /\ lastOp = "new" /\ prevOp = "new"
    /\ beatsEver = 0 /\ beatsSince = 0 /\ run500 = 0 /\ silentRun = 0
    /\ Components

ExtractKey ==
    /\ lastOp = "new"
    /\ features' = [features EXCEPT !.chroma = calculateChroma(input.freq)]
    /\ chars' = [chars EXCEPT !.key = detectKey(features'.chroma)]
    /\ lastOp' = "chroma" /\ prevOp' = lastOp
    /\ UNCHANGED <<detVars, analysisHistory, musicHistory, lastMining, miningGap, candidates,
                   prevPatterns, now, out, prevOut, train, pos, input, ticks, changed, resets,
                   beatsEver, beatsSince, run500, silentRun, compVars>>

NextTone == ExtractKey

SpecTone == InitTone /\ [][NextTone]_vars

\* the detector and the analyzer as constructed, no frame fed
CoreAtRest ==
    /\ FreshDetector
    /\ analysisHistory = <<>>
    /\ features = NoFeatures
    /\ musicHistory = <<>>
    /\ lastMining = 0 /\ miningGap = 0 /\ candidates = <<>>
    /\ prevPatterns = <<>>
    /\ now = 0
    /\ out = NoBeatData
    /\ prevOut = NoBeatData
    /\ chars = NoCharacteristics
    /\ train = SilentTrain
    /\ pos = 0
    /\ input = Silence
    /\ ticks = 0 /\ changed = FALSE /\ resets = 0
    /\ lastOp = "new" /\ prevOp = "new"
    /\ beatsEver = 0 /\ beatsSince = 0 /\ run500 = 0 /\ silentRun = 0

\* ------------------------------------- generateMusicCharacteristics on two inputs
\* the inputs of generateMusicCharacteristics: band levels of a frame, a BeatData
\* with a tempo, and an AdvancedAudioFeatures record whose centroid (centi-Hz),
\* harmonic ratio and percussive ratio (ppm) range over values of the extractor,
\* with all chroma on one pitch class of the major profile
MoodFrames == {Hum, Hiss, Blast}
MoodTempos == {90, 150}
MoodCentroids == {50000, 125000}
MoodHarmonicRatios == {800000, 950000}
MoodPercussiveRatios == {200000, 800000}
MoodInputs ==
    {[frame |-> f,
      beatData |-> [NoBeatData EXCEPT !.tempo = t],
      features |-> [analyzeAdvancedFeatures(f, NoBeatData, <<>>) EXCEPT
                       !.spectralCentroid = c, !.harmonicRatio = h, !.percussiveRatio = q,
                       !.chroma = [pc \in 0..11 |-> IF pc = 0 THEN Ppm ELSE 0]],
      chars |-> NoCharacteristics,
      done |-> FALSE] :
        f \in MoodFrames, t \in MoodTempos, c \in MoodCentroids,
        h \in MoodHarmonicRatios, q \in MoodPercussiveRatios}

InitMood ==
    /\ CoreAtRest
    /\ NewPollinationsAI
    /\ NewAudioAnalyzer
    /\ EngineUnused
    /\ left \in MoodInputs
    /\ right \in MoodInputs

Characterize(i) ==
    [i EXCEPT !.chars = generateMusicCharacteristics(i.frame, i.beatData, i.features),
              !.done = TRUE]

\* generateMusicCharacteristics is applied to both inputs
Classify ==
    /\ ~left.done
    /\ left' = Characterize(left)
    /\ right' = Characterize(right)
    /\ UNCHANGED <<detVars, anaVars, envVars, cacheVars, playVars, engVars>>

NextMood == Classify

SpecMood == InitMood /\ [][NextMood]_vars

\* -------------------------------------------- the generated-image cache
\* the keys whose image cannot be loaded (one preload, one later request)
BadKeys == {2, 6}

\* the keys a caller may request: a key never requested before, the oldest
\* cached key, and the key of the newest load in flight
RequestKeys ==
    (IF nextKey <= MaxKeys THEN {nextKey} ELSE {})
    \cup (IF cache # <<>> THEN {Head(cache)} ELSE {})
    \cup (IF pending # <<>> /\ Last(pending) > preloadCount THEN {Last(pending)} ELSE {})

\* generateStoryBackground up to its first await: a cached key is served at
\* once, otherwise generateImage starts loading the image
Request(key) ==
    /\ key \in RequestKeys
    /\ IF Contains(cache, key)
       THEN /\ detours < MaxDetours
            /\ uses' = Append(Without(uses, key), key)
            /\ detours' = detours + 1
            /\ cacheOp' = "hit"
            /\ UNCHANGED <<pending, nextKey>>
       ELSE /\ Len(pending) < MaxInFlight
            /\ key # nextKey => detours < MaxDetours
            /\ pending' = Append(pending, key)
            /\ nextKey' = IF key = nextKey THEN nextKey + 1 ELSE nextKey
            /\ detours' = IF key = nextKey THEN detours ELSE detours + 1
            /\ cacheOp' = "miss"
            /\ UNCHANGED uses
    /\ UNCHANGED <<cache, evicted, victim>>
    /\ UNCHANGED <<detVars, anaVars, envVars, moodVars, playVars, engVars>>

\* the loads in flight after load i settled; a settled preload starts the next
AfterLoad(i) ==
    LET key == pending[i]
        rest == SubSeq(pending, 1, i - 1) \o SubSeq(pending, i + 1, Len(pending))
    IN  IF key < preloadCount THEN Append(rest, key + 1) ELSE rest

\* load i settles, possibly before an older one
Settle(i) ==
    /\ i \in 1..Len(pending)
    /\ i > 1 => detours < MaxDetours
    /\ detours' = IF i > 1 THEN detours + 1 ELSE detours
    /\ pending' = AfterLoad(i)

\* testImageLoad resolves for load i: generateImage caches the image
Loaded(i) ==
    /\ Settle(i)
    /\ pending[i] \notin BadKeys
    /\ cache' = addToCache(cache, pending[i])
    /\ evicted' = IF Len(cache) >= maxCacheSize THEN Head(cache) ELSE 0
    /\ victim' = IF Len(cache) >= maxCacheSize THEN Head(uses) ELSE 0
    /\ uses' = Append(Without(Without(uses, evicted'), pending[i]), pending[i])
    /\ cacheOp' = "insert"
    /\ UNCHANGED nextKey
    /\ UNCHANGED <<detVars, anaVars, envVars, moodVars, playVars, engVars>>

\* testImageLoad rejects for load i: the fallback image is returned, not cached
LoadFailed(i) ==
    /\ Settle(i)
    /\ pending[i] \in BadKeys
    /\ cacheOp' = "fallback"
    /\ UNCHANGED <<cache, uses, evicted, victim, nextKey>>
    /\ UNCHANGED <<detVars, anaVars, envVars, moodVars, playVars, engVars>>

NextCache ==
    \/ \E key \in 1..MaxKeys : Request(key)
    \/ \E i \in 1..MaxInFlight : Loaded(i)
    \/ \E i \in 1..MaxInFlight : LoadFailed(i)

InitCache == CoreAtRest /\ Components

SpecCache == InitCache /\ [][NextCache]_vars

\* ------------------------------------------------- AudioAnalyzer playback
\* A source node is "playing" from start() until stop() or the end of the
\* buffer, then "stopping" until its ended event is delivered, then "ended".
getDuration == IF audioBuffer THEN BufferDuration ELSE 0
getCurrentTime == IF ~isPlaying THEN pauseTime ELSE audioTime - startTime

\* sourceNode.stop() on the nodes: a playing node stops, its ended event is queued
StopNode(ns, n) ==
    IF n # 0 /\ ns[n].state = "playing" THEN [ns EXCEPT ![n].state = "stopping"] ELSE ns

\* the fields after play(startOffset), which begins with stop(); a node started
\* at the end of the buffer has nothing to play
PlayFrom(startOffset) ==
    /\ nodes' = Append(StopNode(nodes, sourceNode),
                       [state |-> IF startOffset >= BufferDuration THEN "stopping"
                                  ELSE "playing",
                        offset |-> startOffset, startedAt |-> audioTime])
    /\ sourceNode' = Len(nodes) + 1
    /\ startTime' = audioTime - startOffset
    /\ isPlaying' = TRUE

Clamp(time) == Max(0, Min(time, getDuration))

\* loadAudioBuffer(audioBuffer)
LoadAudioBuffer ==
    /\ ~audioBuffer
    /\ audioBuffer' = TRUE
    /\ playOp' = "load"
    /\ UNCHANGED <<sourceNode, isPlaying, startTime, pauseTime, nodes, audioTime, mark>>
    /\ UNCHANGED <<detVars, anaVars, envVars, moodVars, cacheVars, engVars>>

\* play(startOffset)
Play(startOffset) ==
    /\ Len(nodes) < MaxNodes
    /\ playOp' = "play"
    /\ IF audioBuffer
       THEN PlayFrom(startOffset) /\ pauseTime' = 0
       ELSE UNCHANGED <<sourceNode, isPlaying, startTime, pauseTime, nodes>>
    /\ UNCHANGED <<audioBuffer, audioTime, mark>>
    /\ UNCHANGED <<detVars, anaVars, envVars, moodVars, cacheVars, engVars>>

\* pause()
Pause ==
    /\ IF sourceNode # 0 /\ isPlaying
       THEN /\ pauseTime' = getCurrentTime
            /\ nodes' = StopNode(nodes, sourceNode)
            /\ isPlaying' = FALSE
            /\ mark' = getCurrentTime
            /\ playOp' = "pause"
       ELSE /\ playOp' = "pause ignored"
            /\ UNCHANGED <<pauseTime, nodes, isPlaying, mark>>
    /\ UNCHANGED <<audioBuffer, sourceNode, startTime, audioTime>>
    /\ UNCHANGED <<detVars, anaVars, envVars, moodVars, cacheVars, engVars>>

\* resume(): play(this.pauseTime), then pauseTime = 0
Resume ==
    /\ playOp' = "resume"
    /\ IF pauseTime > 0
       THEN /\ Len(nodes) < MaxNodes
            /\ IF audioBuffer THEN PlayFrom(pauseTime)
               ELSE UNCHANGED <<sourceNode, isPlaying, startTime, nodes>>
            /\ pauseTime' = 0
       ELSE UNCHANGED <<sourceNode, isPlaying, startTime, pauseTime, nodes>>
    /\ UNCHANGED <<audioBuffer, audioTime, mark>>
    /\ UNCHANGED <<detVars, anaVars, envVars, moodVars, cacheVars, engVars>>

\* stop()
Stop ==
    /\ nodes' = StopNode(nodes, sourceNode)
    /\ sourceNode' = 0
    /\ isPlaying' = FALSE
    /\ pauseTime' = 0
    /\ playOp' = "stop"
    /\ UNCHANGED <<audioBuffer, startTime, audioTime, mark>>
    /\ UNCHANGED <<detVars, anaVars, envVars, moodVars, cacheVars, engVars>>

\* seekTo(time)
SeekTo(time) ==
    /\ IF ~audioBuffer
       THEN /\ playOp' = "seekTo ignored"
            /\ UNCHANGED <<sourceNode, isPlaying, startTime, pauseTime, nodes, mark>>
       ELSE IF isPlaying
       THEN /\ Len(nodes) < MaxNodes
            /\ PlayFrom(Clamp(time))
            /\ pauseTime' = 0
            /\ playOp' = "seekTo playing"
            /\ UNCHANGED mark
       ELSE /\ nodes' = StopNode(nodes, sourceNode)
            /\ sourceNode' = 0
            /\ isPlaying' = FALSE
            /\ pauseTime' = Clamp(time)
            /\ mark' = Clamp(time)
            /\ playOp' = "seekTo paused"
            /\ UNCHANGED startTime
    /\ UNCHANGED <<audioBuffer, audioTime>>
    /\ UNCHANGED <<detVars, anaVars, envVars, moodVars, cacheVars, engVars>>

\* the audio clock advances by one step; a playing node that reaches the end of
\* the buffer stops and its ended event is queued
Advance ==
    /\ audioTime < MaxAudioTime
    /\ audioTime' = audioTime + 1
    /\ nodes' = [n \in 1..Len(nodes) |->
                   IF nodes[n].state = "playing"
                      /\ audioTime' - nodes[n].startedAt >= BufferDuration - nodes[n].offset
                   THEN [nodes[n] EXCEPT !.state = "stopping"]
                   ELSE nodes[n]]
    /\ UNCHANGED <<audioBuffer, sourceNode, isPlaying, startTime, pauseTime, playOp, mark>>
    /\ UNCHANGED <<detVars, anaVars, envVars, moodVars, cacheVars, engVars>>

\* the onended callback of node n runs: this.isPlaying = false
Ended(n) ==
    /\ n \in 1..Len(nodes)
    /\ nodes[n].state = "stopping"
    /\ nodes' = [nodes EXCEPT ![n].state = "ended"]
    /\ isPlaying' = FALSE
    /\ UNCHANGED <<audioBuffer, sourceNode, startTime, pauseTime, audioTime, playOp, mark>>
    /\ UNCHANGED <<detVars, anaVars, envVars, moodVars, cacheVars, engVars>>

NextPlayback ==
    \/ LoadAudioBuffer
    \/ \E startOffset \in 0..BufferDuration : Play(startOffset)
    \/ Pause
    \/ Resume
    \/ Stop
    \/ \E time \in 0..(BufferDuration + 1) : SeekTo(time)
    \/ Advance
    \/ \E n \in 1..MaxNodes : Ended(n)

InitPlayback == CoreAtRest /\ Components

SpecPlayback == InitPlayback /\ [][NextPlayback]_vars

\* ------------------------------------------- the narrative transition engine
\* The runs followed are of two kinds.  In a free run the caller makes at most
\* FreeTriggers requests, at any moment and with any theme and effect, the music
\* changes at most once and update() is called up to MaxIdleUpdates times
\* without a transition.  A manual run goes on from a free run that never
\* idled: every further request asks for the underwater theme with the default
\* effect and is made once the transition before it has completed.
ManualRun == triggers > FreeTriggers

\* the caller's music changes once
SwitchMusic ==
    /\ ~switched
    /\ ~ManualRun
    /\ \E m \in Moments \ {moment} : moment' = m
    /\ switched' = TRUE
    /\ UNCHANGED <<activeTransition, currentScene, sceneStartTime, transitionHistory, clock,
                   theme, deltaTime, started, completed, idle, triggers, engOp>>
    /\ UNCHANGED <<detVars, anaVars, envVars, moodVars, cacheVars, playVars>>

\* the fields of the other components, which update() leaves alone
engineRest == <<detVars, analysisHistory, features, lastMining, miningGap, candidates,
                prevPatterns, envVars, moodVars, cacheVars, playVars>>

\* update(audioData, beatData, musicCharacteristics, currentTheme, deltaTime)
update ==
    /\ activeTransition # NoTransition \/ (idle < MaxIdleUpdates /\ ~ManualRun)
    /\ musicHistory' = PushCapped(musicHistory, moment.chars, musicHistoryCap)
    /\ clock' = clock + deltaTime
    /\ engOp' = "update"
    /\ IF activeTransition # NoTransition
       THEN \E updated \in {updateActiveTransition(activeTransition, deltaTime)} :
              IF ~updated.isActive
              THEN \* completeTransition
                   /\ transitionHistory' = PushCapped(transitionHistory, updated,
                                                      transitionHistoryCap)
                   /\ currentScene' = updated.toScene
                   /\ sceneStartTime' = clock
                   /\ activeTransition' = NoTransition
                   /\ completed' = completed \cup {updated.serial}
                   /\ UNCHANGED <<started, idle>>
              ELSE /\ activeTransition' = updated
                   /\ UNCHANGED <<currentScene, sceneStartTime, transitionHistory, started,
                                  completed, idle>>
       ELSE \E potential \in
                {evaluateTransitionTriggers(moment.audio, moment.chars, musicHistory', theme,
                                            clock, sceneStartTime)} :
              /\ idle' = idle + 1
              /\ IF potential = {}
                 THEN UNCHANGED <<activeTransition, started>>
                 ELSE /\ \E transition \in potential :
                           activeTransition' = startTransition(transition, currentScene,
                                                               clock, started + 1)
                      /\ started' = started + 1
              /\ UNCHANGED <<currentScene, sceneStartTime, transitionHistory, completed>>
    /\ UNCHANGED <<theme, moment, switched, deltaTime, triggers>>
    /\ UNCHANGED engineRest

\* the requests a caller may make next
Requests ==
    IF triggers < FreeTriggers
    THEN {"space-odyssey", "abstract-dreams"} \X {"", "spiral", "warp"}
    ELSE {<<"underwater-adventure", "">>}

\* triggerTransition(toThemeId, effectId); effectId "" stands for undefined
triggerTransition(toThemeId, effectId) ==
    /\ triggers < MaxTriggers
    /\ <<toThemeId, effectId>> \in Requests
    /\ triggers >= FreeTriggers => activeTransition = NoTransition /\ idle = 0 /\ ~switched
    /\ triggers' = triggers + 1
    /\ \E effect \in {IF effectId = "" THEN "fade" ELSE effectId} :
         IF findThemeById(toThemeId) /\ effect \in DOMAIN transitionEffects
         THEN /\ activeTransition' = startTransition([toTheme |-> toThemeId,
                                                      effect |-> effect],
                                                     currentScene, clock, started + 1)
              /\ started' = started + 1
              /\ engOp' = "triggered"
         ELSE /\ engOp' = "refused"
              /\ UNCHANGED <<activeTransition, started>>
    /\ UNCHANGED <<currentScene, sceneStartTime, transitionHistory, clock, theme, moment,
                   switched, deltaTime, completed, idle>>
    /\ UNCHANGED <<detVars, anaVars, envVars, moodVars, cacheVars, playVars>>

NextNarrative ==
    \/ update
    \/ SwitchMusic
    \/ \E toThemeId \in {"space-odyssey", "underwater-adventure", "abstract-dreams"} :
          \E effectId \in {"", "spiral", "warp"} : triggerTransition(toThemeId, effectId)

InitNarrative ==
    /\ CoreAtRest
    /\ NoMoodInputs /\ NewPollinationsAI /\ NewAudioAnalyzer
    /\ NewNarrativeTransitionEngine
    /\ theme \in EngineThemes
    /\ moment \in Moments
    /\ deltaTime \in DeltaTimes

SpecNarrative == InitNarrative /\ [][NextNarrative]_vars

\* update() keeps being called
SpecNarrativeFair == SpecNarrative /\ WF_vars(update)

\* ================================================================== claims
Analyzed == lastOp = "analyze"

\* the energy and bass criteria of detectBeat hold for the last tick's sample
LoudOnset ==
    /\ energyHistory # <<>>
    /\ IsEnergyBeat(Last(energyHistory), SliceLast(energyHistory, 10))
    /\ IsBassHit(bassHistory)

\* C1: consecutive entries of the beat-timestamp history (the accepted beats) are
\* at least minBeatInterval = 300 ms apart.
C1_TimingGate ==
    \A i \in 1..(Len(beatHistory) - 1) : beatHistory[i + 1] - beatHistory[i] >= 300

\* a tick whose energy and bass criteria held was rejected by the gate alone,
\* between accepted beats
C1_Witness ==
    /\ Analyzed /\ ~out.isBeat
    /\ Len(beatHistory) >= 2
    /\ ~ColdStart(energyHistory) /\ LoudOnset
    /\ now - lastBeatTime < 300

\* C2: on every tick at which energyHistory (with this tick's sample) holds fewer
\* than 10 samples, isBeat is false and confidence is 0, also after reset().
C2_ColdStart ==
    (Analyzed /\ Len(energyHistory) < 10) => (~out.isBeat /\ out.confidence[1] = 0)

\* after a reset, a loud onset with valid timing arrives during the cold start
C2_Witness ==
    /\ Analyzed /\ resets > 0 /\ beatsEver > 0
    /\ Len(energyHistory) < 10
    /\ LoudOnset
    /\ now - lastBeatTime >= 300
    /\ ~out.isBeat

\* C3: confidence lies in [0,1], is 0 when isBeat is false and positive when
\* isBeat is true.
C3_Confidence ==
    /\ out.confidence[2] > 0
    /\ 0 <= out.confidence[1] /\ out.confidence[1] <= out.confidence[2]
    /\ ~out.isBeat => out.confidence[1] = 0
    /\ out.isBeat => out.confidence[1] > 0

\* a beat whose (energyRatio - 1) * 0.5 exceeds 1 and is clamped
C3_Witness ==
    /\ Analyzed /\ out.isBeat
    /\ out.confidence = <<1, 1>>
    /\ 200 * Last(energyHistory) * 10 > 3 * RatioDen(SliceLast(energyHistory, 10))

\* C4: the returned tempo and every stored tempo lie in [60,200].
C4_TempoRange ==
    /\ out.tempo >= 60 /\ out.tempo <= 200
    /\ \A i \in 1..Len(tempoHistory) : tempoHistory[i] >= 60 /\ tempoHistory[i] <= 200

\* a beat tick whose raw BPM estimate lies below 60 and is clamped
C4_Witness ==
    /\ Analyzed /\ out.isBeat /\ Len(beatHistory) >= 2
    /\ NewTempo(FilterValid(Intervals(beatHistory), Median2(Intervals(beatHistory)))) < 60
    /\ out.tempo = 60

\* a beat tick on which every interval is rejected as an outlier
C4_OutlierReached ==
    /\ Analyzed /\ out.isBeat /\ Len(beatHistory) >= 2
    /\ FilterValid(Intervals(beatHistory), Median2(Intervals(beatHistory))) = <<>>

\* C5: on every tick where isBeat is false the returned tempo equals the tempo
\* returned on the previous tick (120 before any tick), so the tempo output
\* changes only on beat ticks.
C5_TempoPersists ==
    (Analyzed /\ prevOp # "reset" /\ ~out.isBeat) => out.tempo = prevOut.tempo

\* C6: beatPhase lies in [0,1); it is 0 while no beat has been accepted and 0 on
\* every tick at which a beat is accepted.
C6_BeatPhase ==
    /\ out.beatPhase >= 0 /\ out.beatPhase < PhaseDen
    /\ beatsEver = 0 => out.beatPhase = 0
    /\ Analyzed =>
          /\ beatPhase = out.beatPhase
          /\ beatsSince = 0 => out.beatPhase = 0
          /\ out.isBeat => out.beatPhase = 0

\* the sawtooth had advanced and is reset by an accepted beat
C6_Witness ==
    /\ Analyzed /\ prevOp = "analyze"
    /\ out.isBeat /\ prevOut.beatPhase > 0 /\ out.beatPhase = 0

\* the phase advances between beats
C6_Advancing == Analyzed /\ ~out.isBeat /\ out.beatPhase > 0

\* C7: every history stays within its cap (energy 43, bands 20, beat timestamps 8,
\* tempo 10, pattern buffer 32); a push beyond the cap drops exactly the oldest
\* entry and keeps the others in push order.
Fifo(h, x, cap) == IF Len(h) < cap THEN h \o <<x>> ELSE SubSeq(h, 2, Len(h)) \o <<x>>
C7_Step ==
    (lastOp' = "analyze" /\ ticks' = ticks + 1) =>
        /\ energyHistory' = Fifo(energyHistory, calculateEnergy(input'.freq), 43)
        /\ bassHistory' = Fifo(bassHistory, input'.bass, 20)
        /\ midHistory' = Fifo(midHistory, input'.mid, 20)
        /\ trebleHistory' = Fifo(trebleHistory, input'.treble, 20)
        /\ patternBuffer' = Fifo(patternBuffer, out'.isBeat, 32)
        /\ beatHistory' = IF out'.isBeat THEN Fifo(beatHistory, now', 8) ELSE beatHistory
        /\ tempoHistory' = tempoHistory \/ tempoHistory' = Fifo(tempoHistory, out'.tempo, 10)
        /\ Len(energyHistory') <= 43
        /\ Len(bassHistory') <= 20 /\ Len(midHistory') <= 20 /\ Len(trebleHistory') <= 20
        /\ Len(beatHistory') <= 8 /\ Len(tempoHistory') <= 10 /\ Len(patternBuffer') <= 32
C7_HistoryEviction == [][C7_Step]_vars

\* every history has been pushed beyond its cap
C7_Witness ==
    /\ ticks >= 44 /\ resets = 0
    /\ Len(energyHistory) = 43 /\ Len(bassHistory) = 20 /\ Len(patternBuffer) = 32
    /\ beatsEver >= 12 /\ Len(beatHistory) = 8 /\ Len(tempoHistory) = 10
    /\ energyHistory[1] # energyHistory[43]

\* what analyze returns on a freshly constructed detector
FreshOutput(frame, currentTime) ==
    LET energy == calculateEnergy(frame.freq)
        beatResult == detectBeat(<<energy>>, <<frame.bass>>, <<>>, 0, energy, currentTime)
        tempoResult == calculateTempo(beatResult.beatHistory, <<>>, beatResult.isBeat)
    IN  [isBeat |-> beatResult.isBeat,
         confidence |-> beatResult.confidence,
         tempo |-> tempoResult.tempo,
         timeSignature |-> estimateTimeSignature(<<>>),
         beatPhase |-> updateBeatPhase(currentTime, tempoResult.tempo, beatResult.lastBeatTime),
         intensity |-> calculateIntensity(frame.bass, frame.mid, frame.treble, energy)]

\* C8: reset() leaves the state of a fresh detector (so a second reset changes
\* nothing), and the analyze after a reset returns what a fresh detector returns
\* for the same frame and clock: no beat, confidence 0, tempo 120, signature 4,
\* phase 0 and the frame's intensity.
C8_Step ==
    /\ lastOp' = "reset" => FreshDetector'
    /\ (lastOp = "reset" /\ lastOp' = "reset") => detVars' = detVars
    /\ (lastOp = "reset" /\ lastOp' = "analyze") =>
          /\ out' = FreshOutput(input', now')
          /\ ~out'.isBeat /\ out'.confidence[1] = 0 /\ out'.tempo = 120
          /\ out'.timeSignature = 4 /\ out'.beatPhase = 0
C8_ResetIdempotent == [][C8_Step]_vars

\* a detector that had accepted beats and held another tempo was reset twice and
\* then fed a loud frame
C8_Witness ==
    /\ Analyzed /\ prevOp = "reset" /\ resets = 2
    /\ beatsEver >= 2 /\ prevOut.tempo # 120
    /\ input = Kick /\ now >= 300

\* C9 (as stated): during a run of all-zero frames isBeat is false, the tempo
\* stays at its prior value, energy is 0 and the mood comes from the final
\* default branch ('calm' by the trailing return).
C9_SilentOriginal ==
    (Analyzed /\ silentRun >= 1) =>
        /\ ~out.isBeat
        /\ out.tempo = prevOut.tempo
        /\ chars.energy = 0
        /\ chars.mood = "calm" /\ chars.branch = 8

\* C9 (amended): during a run of all-zero frames isBeat is false, the tempo is
\* the held smoothed tempo (last tempoHistory entry, 120 if none) and does not
\* change within the run, energy is 0, and the mood is 'dark', returned by the
\* third branch of the cascade (valence 0 < 0.3), not by the final default.
C9_SilentInput ==
    (Analyzed /\ silentRun >= 1) =>
        /\ ~out.isBeat
        /\ out.tempo = HeldTempo(tempoHistory)
        /\ silentRun >= 2 => out.tempo = prevOut.tempo
        /\ chars.tempo = out.tempo
        /\ chars.energy = 0
        /\ chars.valence = 0
        /\ chars.mood = "dark" /\ chars.branch = 3

\* 100 all-zero frames in a row after beats had set another tempo
C9_Witness ==
    /\ Analyzed /\ silentRun = 100
    /\ beatsEver >= 2 /\ out.tempo # 120

\* C10 (as stated): once 10 beats in a row have been accepted at exactly 500 ms
\* spacing, the reported tempo is within 2 BPM of 120.
C10_ConvergesOriginal ==
    (Analyzed /\ run500 >= 10) => (out.tempo >= 118 /\ out.tempo <= 122)

\* C10 (amended): when the beats accepted since construction or the last reset
\* are all spaced exactly 500 ms (the detector holds no earlier tempo), the
\* reported tempo is within 2 BPM of 120 from the 10th beat on.
C10_ConvergesFromStart ==
    (Analyzed /\ run500 >= 10 /\ beatsSince = run500) =>
        (out.tempo >= 118 /\ out.tempo <= 122)

\* the 10th beat of such a run
C10_Witness ==
    /\ Analyzed /\ out.isBeat
    /\ run500 = 10 /\ beatsSince = 10
    /\ Len(tempoHistory) = 9

\* C11: energy, valence, danceability, acousticness and instrumentalness of the
\* MusicCharacteristics produced on a tick all lie in [0,1].
C11_UnitRange ==
    Analyzed =>
        /\ 0 <= chars.energy /\ chars.energy <= 30
        /\ 0 <= chars.valence /\ chars.valence <= Ppm
        /\ 0 <= chars.danceability /\ chars.danceability <= Ppm
        /\ 0 <= chars.acousticness /\ chars.acousticness <= Ppm
        /\ 0 <= chars.instrumentalness /\ chars.instrumentalness <= Ppm

\* bins of the last input that carry energy (1-based), and those among them whose
\* frequency (bin - 1) * 44100 / (2 * length) lies strictly between 80 and 5000 Hz
LitBins == {i \in 1..Len(input.freq) : input.freq[i] > 0}
InRangeBins ==
    {i \in 1..Len(input.freq) :
        /\ (i - 1) * 44100 > 80 * 2 * Len(input.freq)
        /\ (i - 1) * 44100 < 5000 * 2 * Len(input.freq)}
ChromaDone == lastOp = "chroma"
ChromaTotal ==
    features.chroma[0] + features.chroma[1] + features.chroma[2] + features.chroma[3]
    + features.chroma[4] + features.chroma[5] + features.chroma[6] + features.chroma[7]
    + features.chroma[8] + features.chroma[9] + features.chroma[10] + features.chroma[11]

\* C12: for a spectrum whose energy lies only in musical-range bins that
\* calculateChroma maps to A and to other notes of the A-major scale (A, B, C#,
\* D, E, F#, G#: pitch classes 0, 2, 4, 5, 7, 9, 11 counted from A), with energy
\* on A, detectKey applied to the chroma vector returns "A".
C12_KeyRoundTrip ==
    (/\ ChromaDone
     /\ LitBins # {} /\ LitBins \subseteq InRangeBins
     /\ \A i \in LitBins :
            PitchClass(BinFreq(i - 1, Len(input.freq))) \in {0, 2, 4, 5, 7, 9, 11}
     /\ \E i \in LitBins : PitchClass(BinFreq(i - 1, Len(input.freq))) = 0)
    => chars.key = "A"

\* C13: calculateChroma returns 12 non-negative entries; every bin strictly
\* between 80 Hz and 5000 Hz adds its magnitude to exactly one of the 12
\* accumulators (their total is the total magnitude of those bins, each entry is
\* its accumulator's share); the entries sum to 1 (up to the truncation of the 12
\* ppm values) when some such bin is non-zero and are all zero otherwise.
C13_ChromaNormalised ==
    ChromaDone =>
        LET raw == ChromaAccumulate(input.freq)
            total == SumSeq([i \in 1..Len(input.freq) |->
                               IF i \in InRangeBins THEN input.freq[i] \div 51 ELSE 0])
        IN  /\ DOMAIN features.chroma = 0..11
            /\ \A pc \in 0..11 : features.chroma[pc] >= 0
            /\ \A i \in InRangeBins : PitchClass(BinFreq(i - 1, Len(input.freq))) \in 0..11
            /\ raw[0] + raw[1] + raw[2] + raw[3] + raw[4] + raw[5] + raw[6] + raw[7]
               + raw[8] + raw[9] + raw[10] + raw[11] = total
            /\ total > 0 =>
                  /\ \A pc \in 0..11 : features.chroma[pc] = (raw[pc] * 1000000) \div total
                  /\ ChromaTotal <= 1000000 /\ ChromaTotal > 1000000 - 12
            /\ total = 0 => \A pc \in 0..11 : features.chroma[pc] = 0

\* a spectrum with energy at two levels in several pitch classes of the musical
\* range and energy outside the range, which is left out
C13_Witness ==
    /\ ChromaDone
    /\ LitBins \cap InRangeBins # {} /\ LitBins \ InRangeBins # {}
    /\ Cardinality({pc \in 0..11 : features.chroma[pc] > 0}) >= 3
    /\ \E i, j \in LitBins \cap InRangeBins : input.freq[i] # input.freq[j]
    /\ ChromaTotal < 1000000

\* a stored pattern of period p with confidence above 0.7 (3920 / 5600)
StrongPeriod(p) ==
    \E i \in 1..Len(rhythmPatterns) :
        rhythmPatterns[i].period = p /\ 10 * rhythmPatterns[i].confidence > 3920

\* C14: the timeSignature returned by analyze is 2, 3 or 4, by the priority
\* rule over the periods of the stored patterns with confidence > 0.7: a period
\* 4 or 8 gives 4; otherwise 3 or 6 gives 3; otherwise 2 gives 2; otherwise 4.
C14_TimeSignature ==
    Analyzed =>
        /\ out.timeSignature \in {2, 3, 4}
        /\ (StrongPeriod(4) \/ StrongPeriod(8)) => out.timeSignature = 4
        /\ (~StrongPeriod(4) /\ ~StrongPeriod(8) /\ (StrongPeriod(3) \/ StrongPeriod(6)))
              => out.timeSignature = 3
        /\ (~StrongPeriod(4) /\ ~StrongPeriod(8) /\ ~StrongPeriod(3) /\ ~StrongPeriod(6)
            /\ StrongPeriod(2)) => out.timeSignature = 2
        /\ (\A p \in {2, 3, 4, 6, 8} : ~StrongPeriod(p)) => out.timeSignature = 4

\* a strong pattern of period 8 is stored next to a pattern that is not strong
C14_Witness ==
    /\ Analyzed
    /\ StrongPeriod(8)
    /\ \E i \in 1..Len(rhythmPatterns) : 10 * rhythmPatterns[i].confidence <= 3920
    /\ out.timeSignature = 4

\* C15: analysisHistory holds at most 1000 records and musicHistory at most 100,
\* each dropping its oldest record on a push beyond the cap; the spectral flux of
\* a tick is computed from the mfcc of the record pushed on the preceding tick
\* alone (the mean over the bins of max(0, magnitude - mfcc)) and is 0 on the
\* first tick.
C15_Step ==
    (lastOp' = "analyze" /\ ticks' = ticks + 1) =>
        /\ analysisHistory' = Fifo(analysisHistory, HistoryRecord(features'), 1000)
        /\ musicHistory' = Fifo(musicHistory, chars', 100)
        /\ Len(analysisHistory') <= 1000 /\ Len(musicHistory') <= 100
        /\ Len(analysisHistory') = Min(1000, ticks')
        /\ ticks = 0 => features'.spectralFlux = 0
        /\ ticks > 0 =>
              /\ Last(analysisHistory).mfcc = features.mfcc
              /\ features'.spectralFlux =
                    SumSeq([i \in 1..Len(input'.freq) |->
                              Max(0, (input'.freq[i] \div 51) * 200000 - features.mfcc[i])])
                    \div Len(input'.freq)
C15_BoundedHistories == [][C15_Step]_vars

\* both histories have dropped records, and the record the flux was computed from
\* (pushed on the preceding tick) differs in its mfcc from the one before it
C15_Witness ==
    /\ Analyzed /\ ticks > 1001
    /\ Len(analysisHistory) = 1000 /\ Len(musicHistory) = 100
    /\ analysisHistory[998].mfcc # analysisHistory[999].mfcc
    /\ analysisHistory[1] # analysisHistory[1000]
    /\ musicHistory[1] # musicHistory[100]

\* C16: once energyHistory holds at least 10 samples, a tick is accepted as a
\* beat iff energy / (mean of the last 10 samples + 0.001) > 1.3 + sqrt(their
\* variance), now - lastBeatTime >= 300 and the newest bass sample > 1.2 times
\* the mean of bassHistory; on acceptance lastBeatTime becomes now and now is
\* appended to the beat history, on rejection both stay as they were.
C16_Step ==
    (lastOp' = "analyze" /\ ticks' = ticks + 1 /\ Len(energyHistory') >= 10) =>
        LET accepted ==
                /\ IsEnergyBeat(Last(energyHistory'), SliceLast(energyHistory', 10))
                /\ now' - lastBeatTime >= 300
                /\ 5 * Last(bassHistory') * Len(bassHistory') > 6 * SumSeq(bassHistory')
        IN  /\ out'.isBeat <=> accepted
            /\ accepted => (lastBeatTime' = now' /\ beatHistory' = Fifo(beatHistory, now', 8))
            /\ ~accepted => (lastBeatTime' = lastBeatTime /\ beatHistory' = beatHistory)
C16_BeatDecision == [][C16_Step]_vars

\* after accepted beats, a tick whose energy and timing criteria hold is rejected
\* by the bass criterion alone
C16_Witness ==
    /\ Analyzed /\ ~out.isBeat
    /\ beatsSince >= 2
    /\ Len(energyHistory) >= 10
    /\ IsEnergyBeat(Last(energyHistory), SliceLast(energyHistory, 10))
    /\ now - lastBeatTime >= 300
    /\ ~IsBassHit(bassHistory)

\* C17: on every tick on which a beat is accepted and the beat history holds at
\* least 2 timestamps, the returned tempo is pushed into tempoHistory and, when
\* some interval lies within 30% of the median, equals (up to the rounding to
\* whole BPM) clamp(60, 200, 0.9 * previous tempo + 0.1 * BPM of the mean of
\* those intervals); no such tick returns a constant without pushing it.
C17_Step ==
    (lastOp' = "analyze" /\ ticks' = ticks + 1 /\ out'.isBeat /\ Len(beatHistory') >= 2) =>
        LET valid == FilterValid(Intervals(beatHistory'), Median2(Intervals(beatHistory')))
            bpm == (120000 * Len(valid) + SumSeq(valid)) \div (2 * SumSeq(valid))
            previous == IF tempoHistory = <<>> THEN bpm ELSE Last(tempoHistory)
            smoothed == (9 * previous + bpm + 5) \div 10
        IN  /\ tempoHistory' = Fifo(tempoHistory, out'.tempo, 10)
            /\ valid # <<>> =>
                  out'.tempo = (IF smoothed < 60 THEN 60 ELSE IF smoothed > 200 THEN 200
                                ELSE smoothed)
C17_SmoothedTempo == [][C17_Step]_vars

\* C18: analyzeRhythmPatterns is invoked at most once per 16 consecutive ticks:
\* two successive invocations are at least 16 ticks apart, also once the pattern
\* buffer has reached its cap of 32.
C18_MiningCadence == miningGap = 0 \/ miningGap >= 16

\* C19: when mining runs on a full buffer of 32 samples whose last 16 booleans
\* repeat the 16 before them (self-similarity 1 > 0.6) and fewer than 5 patterns
\* are stored, a pattern of period 16 is stored (inserted or reinforced).
C19_PeriodSixteen ==
    (/\ Analyzed /\ lastMining = ticks
     /\ Len(patternBuffer) = 32
     /\ SubSeq(patternBuffer, 1, 16) = SubSeq(patternBuffer, 17, 32)
     /\ Len(rhythmPatterns) < 5)
    => \E i \in 1..Len(rhythmPatterns) : rhythmPatterns[i].period = 16

\* the stored patterns and the candidates of the last mining, as sets
StoredSet == {rhythmPatterns[i] : i \in 1..Len(rhythmPatterns)}
CandidateSet == {candidates[i] : i \in 1..Len(candidates)}

\* C20: after every tick at most 5 patterns are stored, each with confidence in
\* (0.3, 1] (in 1/560: above 168, at most 560) and a boolean sequence as long as
\* its period; when the mining of the tick held more than 5 candidates, 5 of them
\* are kept and no dropped candidate has a higher confidence than a kept one.
C20_PatternStore ==
    Analyzed =>
        /\ Len(rhythmPatterns) <= 5
        /\ \A p \in StoredSet :
              /\ p.confidence > 168 /\ p.confidence <= 560
              /\ Len(p.pattern) = p.period
              /\ \A j \in 1..Len(p.pattern) : p.pattern[j] \in BOOLEAN
        /\ Len(candidates) > 5 =>
              /\ Len(rhythmPatterns) = 5
              /\ StoredSet \subseteq CandidateSet
              /\ \A d \in CandidateSet \ StoredSet : \A k \in StoredSet :
                    d.confidence <= k.confidence

\* six candidates, the dropped one not the last inserted, a kept one at the cap 1
C20_Witness ==
    /\ Analyzed /\ Len(candidates) > 5
    /\ \E i \in 1..5 : candidates[i] \notin StoredSet
    /\ \E k \in StoredSet : k.confidence = 560
    /\ \E k \in StoredSet : k.period = 8

\* a history after a tick: unchanged, or one entry pushed behind the old ones,
\* the oldest evicted or not
EntriesKept(old, new) ==
    \/ new = old
    \/ \E x \in {Last(new)} : new = Append(old, x) \/ new = Append(Tail(old), x)
SameEntry(p, q) == p.period = q.period /\ p.pattern = q.pattern
\* the candidate of a period agrees with a stored pattern on more than 80% of
\* the positions
NearMatch(stored, candidate) ==
    /\ Len(stored) = Len(candidate)
    /\ 5 * Cardinality({k \in 1..Len(stored) : stored[k] = candidate[k]}) > 4 * Len(stored)
\* the stored patterns that outlive the step keep their relative order
OrderKept(old, new) ==
    \A i1, i2 \in 1..Len(old) : \A j1, j2 \in 1..Len(new) :
        (i1 < i2 /\ SameEntry(old[i1], new[j1]) /\ SameEntry(old[i2], new[j2])) => j1 < j2
\* what a tick may do to the histories; exact = TRUE is the statement that a bump
\* needs an identical candidate and that no tick reorders the stored patterns
HistoriesStep(exact) ==
    lastOp' = "analyze" =>
        /\ EntriesKept(energyHistory, energyHistory')
        /\ EntriesKept(bassHistory, bassHistory')
        /\ EntriesKept(midHistory, midHistory')
        /\ EntriesKept(trebleHistory, trebleHistory')
        /\ EntriesKept(beatHistory, beatHistory')
        /\ EntriesKept(tempoHistory, tempoHistory')
        /\ EntriesKept(patternBuffer, patternBuffer')
        /\ \A i \in 1..Len(rhythmPatterns) : \A j \in 1..Len(rhythmPatterns') :
              SameEntry(rhythmPatterns[i], rhythmPatterns'[j]) =>
                 \/ rhythmPatterns'[j].confidence = rhythmPatterns[i].confidence
                 \/ /\ rhythmPatterns'[j].confidence
                          = Min(PatDen, rhythmPatterns[i].confidence + 56)
                    /\ Len(patternBuffer') >= 2 * rhythmPatterns[i].period
                    /\ \E candidate \in {SliceLast(patternBuffer', rhythmPatterns[i].period)} :
                          IF exact THEN candidate = rhythmPatterns[i].pattern
                          ELSE NearMatch(rhythmPatterns[i].pattern, candidate)
        /\ \A j \in 1..Len(rhythmPatterns') :
              (\E i \in 1..Len(rhythmPatterns) : SameEntry(rhythmPatterns[i], rhythmPatterns'[j]))
              \/ rhythmPatterns'[j].pattern
                    = SliceLast(patternBuffer', rhythmPatterns'[j].period)
        /\ (exact \/ Len(candidates') <= 5) => OrderKept(rhythmPatterns, rhythmPatterns')

\* C21 (as stated): no tick modifies or reorders an entry of a detector history;
\* the one change is a confidence bump of a stored rhythm pattern, and only when
\* the candidate of its period is identical to it.
C21_ExactBumpOnly == [][HistoriesStep(TRUE)]_vars

\* C21 (amended): every tick keeps the entries of the scalar histories and of
\* patternBuffer in push order; a stored rhythm pattern keeps its pattern and
\* period, and its confidence changes only by the bump min(1, c + 0.1), on a tick
\* whose candidate of that period agrees with it on more than 80% of the
\* positions; the stored patterns keep their relative order unless the mining
\* held more than 5 candidates and sorted them by confidence.
C21_HistoriesKept == [][HistoriesStep(FALSE)]_vars

\* a tick bumped a stored pattern of period 8 on a candidate that differs from it
C21_Witness ==
    /\ Analyzed
    /\ \E i \in 1..Len(prevPatterns) : \E j \in 1..Len(rhythmPatterns) :
          /\ SameEntry(prevPatterns[i], rhythmPatterns[j])
          /\ rhythmPatterns[j].confidence > prevPatterns[i].confidence
          /\ SliceLast(patternBuffer, prevPatterns[i].period) # prevPatterns[i].pattern

\* C23: on every tick danceability = clamp(0, 1, beatConfidence * 0.5
\* + percussiveRatio * 0.3 + (1 - spectralFlux) * 0.2) (in ppm), ticks without a
\* beat (beatConfidence 0) included.
C23_Danceability ==
    Analyzed =>
        chars.danceability
            = Max(0, Min(Ppm, (5 * FracPpm(out.confidence) + 3 * features.percussiveRatio
                               + 2 * (Ppm - features.spectralFlux)) \div 10))

\* C26: in every reachable state the timeSignature returned by analyze (and
\* passed on in MusicCharacteristics) is 4, and every stored rhythm pattern has a
\* period in {4, 8, 16}, so that the branches returning 3 and 2 are never taken.
C26_CommonTime ==
    /\ out.timeSignature = 4
    /\ chars.timeSignature = 4
    /\ \A i \in 1..Len(rhythmPatterns) : rhythmPatterns[i].period \in {4, 8, 16}
    /\ \A i \in 1..Len(candidates) : candidates[i].period \in {4, 8, 16}

\* five patterns are stored, strong ones of period 4 and of period 8 among them,
\* one of them holding a beat
C26_Witness ==
    /\ Analyzed
    /\ Len(rhythmPatterns) = 5
    /\ StrongPeriod(4) /\ StrongPeriod(8)
    /\ \E i \in 1..5 : \E k \in 1..Len(rhythmPatterns[i].pattern) : rhythmPatterns[i].pattern[k]

\* C22: two inputs of the synthesizer that agree on energy, valence, tempo and
\* percussiveRatio receive the same mood, whatever their other features are, and
\* every input receives one of the seven mood labels.
C22_MoodInputs ==
    left.done =>
        /\ (/\ left.chars.energy = right.chars.energy
            /\ left.chars.valence = right.chars.valence
            /\ left.chars.tempo = right.chars.tempo
            /\ left.features.percussiveRatio = right.features.percussiveRatio)
           => left.chars.mood = right.chars.mood
        /\ {left.chars.mood, right.chars.mood}
              \subseteq {"energetic", "calm", "dark", "uplifting", "mysterious", "romantic",
                         "aggressive"}

C27_PlayingFlag ==
    (sourceNode # 0 /\ nodes[sourceNode].state = "playing") => isPlaying

\* what C28 states of one step
C28_Step ==
    /\ playOp' \in {"pause", "seekTo paused"} =>
          (IF ~isPlaying' THEN pauseTime' ELSE audioTime' - startTime') = mark'
    /\ (audioBuffer /\ playOp \in {"pause", "seekTo paused"} /\ playOp' = "resume") =>
          /\ isPlaying'
          /\ sourceNode' # 0
          /\ nodes'[sourceNode'].offset = mark
          /\ audioTime' - startTime' = mark

\* C28: with a loaded buffer, after pause() during playback at position t or
\* seekTo(t) while not playing, for every t in [0, duration], getCurrentTime()
\* returns t, and a following resume() restarts playback at offset t with
\* isPlaying = true.
C28_PauseResume == [][C28_Step]_vars

\* a step of update(): the only call that lets the engine's clock advance
UpdateStep == clock' # clock

\* the triggers of rule r of the current theme that are met at this update(),
\* the rule's conditions holding
TriggersMet(r) ==
    {t \in 1..Len(transitionRules(theme)[r].triggers) :
        /\ ConditionsHold(transitionRules(theme)[r], moment.chars, musicHistory', clock,
                          sceneStartTime)
        /\ evaluateTrigger(transitionRules(theme)[r].triggers[t], moment.audio,
                           moment.chars, musicHistory')}

\* what C24 states of one step
C24_Step ==
    (/\ UpdateStep
     /\ activeTransition = NoTransition
     /\ theme \in {"space-odyssey", "underwater-adventure"}
     /\ \A r \in 1..Len(transitionRules(theme)) :
           IF transitionRules(theme)[r].toTheme = "abstract-dreams"
           THEN TriggersMet(r) # {}
           ELSE TriggersMet(r) = {})
    => /\ activeTransition' # NoTransition
       /\ activeTransition'.toScene.themeId = "abstract-dreams"

\* C24: from the themes space-odyssey and underwater-adventure, an update()
\* without an active transition at which the fallback rule's minDuration,
\* energy-delta and mood conditions hold and its frequency_shift trigger is met
\* (no trigger of the theme's other rule being met) starts a transition whose
\* toScene.themeId is 'abstract-dreams'.
C24_FallbackLive == [][C24_Step]_vars

\* the bounds of a transition's progress (elapsed / duration in [0, 1])
ProgressInRange(t) == 0 <= t.elapsed /\ t.elapsed <= t.duration

\* what C29 states of one step
C29_Step ==
    /\ activeTransition' # NoTransition => ProgressInRange(activeTransition')
    /\ Len(transitionHistory') <= 20
    /\ (UpdateStep /\ activeTransition # NoTransition) =>
          /\ started' = started
          /\ \/ /\ activeTransition' # NoTransition
                /\ activeTransition'.serial = activeTransition.serial
                /\ activeTransition'.toScene = activeTransition.toScene
                /\ activeTransition'.isActive
                /\ activeTransition'.elapsed >= activeTransition.elapsed
                /\ activeTransition'.elapsed < activeTransition'.duration
                /\ UNCHANGED <<transitionHistory, currentScene, sceneStartTime>>
             \/ /\ activeTransition' = NoTransition
                /\ activeTransition.elapsed + deltaTime >= activeTransition.duration
                /\ transitionHistory' # <<>>
                /\ Last(transitionHistory') =
                      [activeTransition EXCEPT !.elapsed = activeTransition.duration,
                                               !.isActive = FALSE]
                /\ SubSeq(transitionHistory', 1, Len(transitionHistory') - 1) =
                      IF Len(transitionHistory) < 20 THEN transitionHistory
                      ELSE Tail(transitionHistory)
                /\ currentScene' = activeTransition.toScene
                /\ sceneStartTime' = clock
    /\ (UpdateStep /\ activeTransition = NoTransition) =>
          UNCHANGED <<transitionHistory, currentScene, sceneStartTime>>

\* C29: the engine holds at most one active transition: while one is active,
\* update() starts no other one and evaluates no trigger; the progress never
\* decreases and stays in [0, 1]; when it reaches 1 the transition is appended
\* to transitionHistory (at most 20 entries, the oldest one dropped),
\* currentScene becomes its toScene, sceneStartTime is refreshed and
\* activeTransition becomes null.
C29_OneTransition == [][C29_Step]_vars

\* update() has completed a transition after more than 20 others: the history
\* is full, its oldest entry was dropped, and the scene is that of the last one
C29_Witness ==
    /\ engOp = "update"
    /\ activeTransition = NoTransition
    /\ Cardinality(completed) > 20
    /\ Len(transitionHistory) = 20
    /\ Head(transitionHistory).serial > 1
    /\ Last(transitionHistory).serial = started
    /\ currentScene = Last(transitionHistory).toScene
    /\ sceneStartTime = clock - deltaTime

\* the transitions started so far that have not completed; a run starts
\* finitely many, so each of them completes if and only if this set is empty
\* again and again
Unfinished == {n \in 1..started : n \notin completed}

\* C30: update() being called again and again, every transition the engine
\* starts, through update() or through triggerTransition(), eventually
\* completes: it is recorded in transitionHistory and its toScene becomes
\* currentScene, whatever the interleaving of the two calls is.
C30_EveryTransitionCompletes == (Unfinished # {}) ~> (Unfinished = {})

====
